---- MODULE Spec2Model ----
(***************************************************************************)
(* A model of quiki's wiki-source parser (package wikifier).               *)
(*                                                                         *)
(* The parser is a byte-at-a-time state machine: Parse splits the input    *)
(* at "\n" and hands each line to parseLine, which hands each byte that is *)
(* not skipped to parseByte; parseByte ends in handleByte (append to the   *)
(* active catch) or nextByte (update last/escape).                         *)
(*                                                                         *)
(* Bytes are one-character strings; a Go string is a sequence of bytes.    *)
(* The input is not fixed up front: every step that consumes a byte also   *)
(* picks the byte that follows it (the parser reads one byte ahead, as     *)
(* p.next), so the reachable states cover every input of at most MaxLen    *)
(* bytes.  `input` records what has been consumed.                         *)
(***************************************************************************)
EXTENDS Integers, Sequences, FiniteSets, TLC

\* Longest input explored by Spec, in bytes (line separators included).
MaxLen == 6

\* The zero byte (p.last before the first byte, p.next at the end of a line).
Nul == "NUL"
\* The line separator Parse splits at; it is never handed to parseByte.
NL == "\n"
\* End of input.
EOF == "EOF"

\* The input bytes explored by Spec: every byte the lexer branches on in
\* comments, escapes and blocks, and one plain byte.
Bytes == {"{", "}", "\\", "/", "*", "@", "a"}

\* Longest input explored by SpecTokens.
MaxTokLen == 5

\* The input bytes explored by SpecTokens: the bytes of Spec with the
\* variable tokens "%", ":" and ";" (plain content in a block) for "a".
TokenBytes == {"{", "}", "\\", "/", "*", "@", "%", ":", ";"}

\* Longest input explored by SpecNest.
MaxNest == 7

\* The input bytes explored by SpecNest: blocks nested in blocks.
NestBytes == {"{", "}", "@", "a"}

\* Longest text before the "{" explored by SpecHeader.
MaxHeader == 6

\* The bytes of the text before a "{" explored by SpecHeader: the brackets
\* of a block name, a type byte, whitespace, the tilde and a byte that is
\* none of these.
HeaderBytes == {"[", "]", "a", " ", "~", "*"}

\* Longest input explored by SpecMain.
MaxMain == 7

\* The input bytes explored by SpecMain: blocks whose type is spelled with
\* the letters of "main", and the variable token "@".
MainBytes == {"m", "a", "i", "n", "{", "@"}

VARIABLES
    p,       \* the parser struct
    heap,    \* the catches allocated so far (blocks and variable names); index = pointer
    status,  \* "running" | "ok" | "error" | "panic": how Parse stands or ended
    err,     \* the error Parse returned (NoErr while there is none)
    ahead,   \* the byte about to be consumed, NL or EOF
    lineIdx, \* parseLine's loop index i: bytes of the current line already consumed
    input,   \* the bytes consumed so far
    page,    \* a Page: its variables, its file, and what its methods returned
    gallery, \* a gallery block with the images it holds and the page's images map
    wiki,    \* a Wiki: page sources, caches, category manifests, requests in flight
    conf,    \* a Config: its variable map and what Require returned
    md,      \* the Markdown renderer: headingLevel and what it has written
    admin    \* the admin site: the shared template string and the requests served

vars ==
    <<p, heap, status, err, ahead, lineIdx, input, page, gallery, wiki, conf, md, admin>>

\* The variables of the wiki runtime, the configuration, the renderer and the
\* admin site.
runtimeVars == <<wiki, conf, md, admin>>

\* The variables of the parser.
parserVars == <<p, heap, status, err, ahead, lineIdx, input>>

\* No page and no gallery are at hand while the parser alone is looked at.
NoPage == [kind |-> "none"]
NoGallery == [kind |-> "none"]
NoWiki == [kind |-> "none"]
NoConf == [kind |-> "none"]
NoRenderer == [kind |-> "none"]
NoAdmin == [kind |-> "none"]

\* Neither a wiki nor a configuration nor a renderer is at hand.
NoRuntime == wiki = NoWiki /\ conf = NoConf /\ md = NoRenderer /\ admin = NoAdmin

\* A nil pointer / nil interface.
Nil == 0

\* ---------------------------------------------------------------------
\* Byte classes of the regular expressions in parseByte.

Lower == {"a","b","c","d","e","f","g","h","i","j","k","l","m",
          "n","o","p","q","r","s","t","u","v","w","x","y","z"}
Upper == {"A","B","C","D","E","F","G","H","I","J","K","L","M",
          "N","O","P","Q","R","S","T","U","V","W","X","Y","Z"}
Digit == {"0","1","2","3","4","5","6","7","8","9"}

\* \w
isWord(c) == c \in Lower \cup Upper \cup Digit \cup {"_"}

\* [\w\-\$\.] : a byte that may be part of a block type
isTypeByte(c) == isWord(c) \/ c \in {"-", "$", "."}

\* \s
isSpace(c) == c \in {" ", "\t", "\n", "\f", "\r"}

variableTokens == {"@", "%", ":", ";", "-"}

\* ---------------------------------------------------------------------
\* Catch kinds and content items.

catchTypeVariableName == "Variable name"
catchTypeVariableValue == "Variable value"
catchTypeBlock == "Block"
catchTypeBraceEscape == "Brace escape"

\* A content item (posContent.content): a string or a block.
Str(s) == [isBlock |-> FALSE, str |-> s, blk |-> Nil]
Blk(i) == [isBlock |-> TRUE, str |-> <<>>, blk |-> i]

NoPos == [line |-> 0, column |-> 0]

\* The strings "main", "map" and "model" as byte sequences.
TypMain == <<"m", "a", "i", "n">>
TypMap == <<"m", "a", "p">>
TypModel == <<"m", "o", "d", "e", "l">>

\* &parserBlock{typ: ..., parent: ..., genericCatch: &genericCatch{}}
newBlock(typ, name, classes, parent, pos) ==
    [kind |-> catchTypeBlock, typ |-> typ, name |-> name, classes |-> classes,
     parent |-> parent, closed |-> FALSE, openPos |-> pos, closePos |-> NoPos,
     positioned |-> <<>>, positionedPrefix |-> <<>>]

\* newParserVariableName(pfx, pos), then catch.parent = parent
newParserVariableName(pfx, pos, parent) ==
    [kind |-> catchTypeVariableName, typ |-> <<>>, name |-> <<>>, classes |-> <<>>,
     parent |-> parent, closed |-> FALSE, openPos |-> pos, closePos |-> NoPos,
     positioned |-> <<>>, positionedPrefix |-> <<Str(pfx)>>]

\* catch.getParentCatch(): a block's parent catch is its parent block.
getParentCatch(h, c) == h[c].parent

\* catch.byteOK(b): a block takes every byte, a variable name [\w.] only.
byteOK(h, c, b) ==
    IF h[c].kind = catchTypeVariableName THEN isWord(b) \/ b = "." ELSE TRUE

\* catch.shouldSkipByte(b): whitespace ends a variable name.
shouldSkipByte(h, c, b) ==
    IF h[c].kind = catchTypeVariableName THEN isSpace(b) ELSE FALSE

\* ---------------------------------------------------------------------
\* genericCatch (on a positioned list `pc`).

\* lastContent / lastString: the last item when it is a string, else "".
lastString(pc) ==
    IF pc = <<>> THEN <<>>
    ELSE IF pc[Len(pc)].isBlock THEN <<>> ELSE pc[Len(pc)].str

\* setLastContent(content): overwrite the last item with a string.
setLastContent(pc, s) == [pc EXCEPT ![Len(pc)] = Str(s)]

\* pushContent(item, pos)
pushContent(pc, item) == Append(pc, item)

\* appendString(s, pos): extend the last item if it is a string that does
\* not end in a newline, else push a new item.  (No string handed to it by
\* the parser ends in "\n", since Parse drops the separators; the indent
\* bookkeeping of that branch, c.line/firstNewline/removeIndent, never runs.)
appendString(pc, s) ==
    IF pc = <<>> THEN pushContent(pc, Str(s))
    ELSE LET v == pc[Len(pc)] IN
         IF v.isBlock THEN pushContent(pc, Str(s))
         ELSE IF v.str # <<>> /\ v.str[Len(v.str)] = NL THEN pushContent(pc, Str(s))
         ELSE [pc EXCEPT ![Len(pc)] = Str(v.str \o s)]

\* appendContent([]interface{}{block}, pos): a block is pushed as an item.
appendContent(pc, i) == pushContent(pc, Blk(i))

\* appendContents / pushContents(pc): append positioned items as they are.
appendContents(pc, items) == pc \o items

\* ---------------------------------------------------------------------
\* The parser.  The operators below work on a record m = [p, heap, err]:
\* the parser struct, the catches, and the error returned (NoErr: nil).

\* An error is the parts its message is built from; pos is the position
\* (line and column) written into the message, NoPos when it holds none.
NoErr ==
    [msg |-> "", byte |-> Nul, catchType |-> "", partial |-> <<>>, pos |-> NoPos,
     panic |-> FALSE]

\* errors.New(msg)
newError(msg) == [NoErr EXCEPT !.msg = msg]

\* a run-time panic (nil dereference): Parse does not return at all
goPanic(msg) == [NoErr EXCEPT !.msg = msg, !.panic = TRUE]

fail(m, e) == [m EXCEPT !.err = e]

\* nextByte with the test of p.escape left out: an escaped backslash
\* escapes the byte after it.
nextByte_escapeKept(m, b) ==
    [m EXCEPT !.p.ignore = FALSE,
              !.p.last = b,
              !.p.escape = (b = "\\" /\ m.p.braceLevel = 0)]

\* (NEXT BYTE)  parser.nextByte
nextByte(m, b) ==
    [m EXCEPT !.p.ignore = FALSE,
              !.p.last = b,
              !.p.escape = (b = "\\" /\ ~m.p.escape /\ m.p.braceLevel = 0)]

\* The text handleByte appends for byte b: the backslash is reinjected when
\* the byte is escaped and p.ignore is set.
addFor(m, b) ==
    IF m.p.ignore /\ m.p.escape THEN <<m.p.last, b>> ELSE <<b>>

\* (NEXT DEFAULT)  parser.handleByte
handleByte(m, b) ==
    LET c == m.p.catch
        add == addFor(m, b)
    IN
    IF c = Nil THEN fail(m, [newError("Nothing to catch byte: ") EXCEPT !.byte = b])
    ELSE IF shouldSkipByte(m.heap, c, b) THEN
        \* terminate the catch: its prefix and content go to the parent catch
        LET pc == m.heap[c].positionedPrefix \o m.heap[c].positioned
            par == getParentCatch(m.heap, c)
        IN
        IF par = Nil THEN fail([m EXCEPT !.p.catch = Nil], goPanic("nil catch"))
        ELSE nextByte([m EXCEPT !.p.catch = par,
                                !.heap[par].positioned = appendString(appendContents(@, pc), add)], b)
    ELSE IF ~byteOK(m.heap, c, b) THEN
        fail(m, [newError("Invalid byte") EXCEPT !.byte = b,
                                                 !.catchType = m.heap[c].kind,
                                                 !.partial = lastString(m.heap[c].positioned)])
    ELSE nextByte([m EXCEPT !.heap[c].positioned = appendString(@, add)], b)

\* BRACE ESCAPE  (parseByte, p.braceLevel != 0)
braceEscape(m, b) ==
    LET isFirst == m.p.braceFirst
        level == IF b = "{" /\ ~isFirst THEN m.p.braceLevel + 1
                 ELSE IF b = "}" THEN m.p.braceLevel - 1
                 ELSE m.p.braceLevel
        \* the last brace clears the brace escape catch
        catch1 == IF ~(b = "{" /\ ~isFirst) /\ b = "}" /\ level = 0
                  THEN getParentCatch(m.heap, m.p.catch) ELSE m.p.catch
        m1 == [m EXCEPT !.p.braceFirst = FALSE, !.p.braceLevel = level, !.p.catch = catch1]
    IN
    IF isFirst \/ level = 0 THEN nextByte(m1, b) ELSE handleByte(m1, b)

\* COMMENTS entrance  (parseByte, b == '/' && p.next == '*')
commentEntrance(m, b) ==
    LET m1 == [m EXCEPT !.p.ignore = TRUE] IN
    IF m.p.escape THEN handleByte(m1, b)
    ELSE nextByte([m1 EXCEPT !.p.commentLevel = @ + 1], b)

\* commentExit without the test of the comment level.
commentExit_levelNotChecked(m, b) ==
    nextByte([m EXCEPT !.p.commentLevel = @ - 1, !.p.skip = TRUE], b)

\* COMMENTS exit  (parseByte, b == '*' && p.next == '/')
commentExit(m, b) ==
    IF m.p.commentLevel = 0 THEN handleByte(m, b)
    ELSE nextByte([m EXCEPT !.p.commentLevel = @ - 1, !.p.skip = TRUE], b)

\* The backward scan of the last content for the block type and name.
\* s is scanned from index i (1-based) down to 1.
RECURSIVE scanHeader(_, _, _, _, _, _)
scanHeader(s, i, inBlockName, charsScanned, blockType, blockName) ==
    IF i = 0
    THEN [charsScanned |-> charsScanned, blockType |-> blockType, blockName |-> blockName]
    ELSE
    LET lastChar == s[i]
        n == charsScanned + 1
        inName == IF lastChar = "]" THEN inBlockName + 1
                  ELSE IF lastChar = "[" THEN inBlockName - 1
                  ELSE inBlockName
    IN
    IF lastChar = "]" /\ inName = 1 THEN scanHeader(s, i - 1, inName, n, blockType, blockName)
    ELSE IF lastChar = "[" /\ inName # 1 THEN scanHeader(s, i - 1, inName, n, blockType, blockName)
    ELSE IF inName # 0 THEN scanHeader(s, i - 1, inName, n, blockType, <<lastChar>> \o blockName)
    ELSE IF isTypeByte(lastChar) THEN scanHeader(s, i - 1, inName, n, <<lastChar>> \o blockType, blockName)
    ELSE IF lastChar = "~" /\ blockType # <<>>
         THEN [charsScanned |-> n, blockType |-> blockType, blockName |-> blockName]
    ELSE IF isSpace(lastChar) /\ blockType = <<>> THEN scanHeader(s, i - 1, inName, n, blockType, blockName)
    ELSE [charsScanned |-> n - 1, blockType |-> blockType, blockName |-> blockName]

\* strings.Split(s, "."): the pieces of s between dots (at least one piece).
RECURSIVE splitDots(_)
splitDots(s) ==
    IF \A k \in 1..Len(s) : s[k] # "." THEN <<s>>
    ELSE LET d == CHOOSE k \in 1..Len(s) : s[k] = "." /\ \A j \in 1..(k - 1) : s[j] # "."
         IN <<SubSeq(s, 1, d - 1)>> \o splitDots(SubSeq(s, d + 1, Len(s)))

\* The type, name and classes of the block a header scan gives
\* (classes split off, "map" by default, $name a model).
blockHeader(lastContent) ==
    LET sc == scanHeader(lastContent, Len(lastContent), 0, 0, <<>>, <<>>)
        split == splitDots(sc.blockType)
        typ1 == IF Len(split) > 1 THEN split[1] ELSE sc.blockType
        classes == IF Len(split) > 1 THEN Tail(split) ELSE <<>>
        typ2 == IF typ1 = <<>> THEN TypMap ELSE typ1
        isModel == typ2[1] = "$"
    IN [charsScanned |-> sc.charsScanned,
        blockType |-> IF isModel THEN TypModel ELSE typ2,
        blockName |-> IF isModel THEN Tail(typ2) ELSE sc.blockName,
        blockClasses |-> classes]

\* BLOCKS  b == '{'  (parseByte)
openBlock(m, b) ==
    LET m1 == [m EXCEPT !.p.ignore = TRUE] IN
    IF m.p.escape THEN handleByte(m1, b)
    ELSE IF m.p.next = "@" THEN
        \* {@some_var}
        handleByte([m1 EXCEPT !.p.skip = TRUE], b)
    ELSE
    LET c == m.p.catch
        lastContent == lastString(m.heap[c].positioned)
    IN
    IF lastContent = <<>> THEN fail(m1, newError("Block has no type"))
    ELSE
    LET hd == blockHeader(lastContent)
        stripped == SubSeq(lastContent, 1, Len(lastContent) - hd.charsScanned)
        block == newBlock(hd.blockType, hd.blockName, hd.blockClasses, m.p.block, m.p.pos)
        id == Len(m.heap) + 1
        heap1 == Append([m.heap EXCEPT ![c].positioned = setLastContent(@, stripped)], block)
        brace == m.p.next = "{"
    IN handleByte([m1 EXCEPT !.heap = heap1,
                             !.p.block = id,
                             !.p.catch = id,
                             !.p.braceFirst = IF brace THEN TRUE ELSE @,
                             !.p.braceLevel = IF brace THEN @ + 1 ELSE @], b)

\* "we cannot close the main block"
isMain(m) == m.heap[m.p.block].typ = TypMain

\* closeBlock without the test for the main block.
closeBlock_mainNotChecked(m, b) ==
    LET m1 == [m EXCEPT !.p.ignore = TRUE] IN
    IF m.p.escape THEN handleByte(m1, b)
    ELSE
    LET blk == m.p.block
        catch1 == getParentCatch(m.heap, m.p.catch)
        m2 == [m1 EXCEPT !.heap[blk].closed = TRUE,
                         !.heap[blk].closePos = m.p.pos,
                         !.p.block = m.heap[blk].parent,
                         !.p.catch = catch1]
    IN
    IF catch1 = Nil THEN fail(m2, goPanic("nil catch"))
    ELSE handleByte([m2 EXCEPT !.heap[catch1].positioned = appendContent(@, blk)], b)

\* closeBlock without the test of p.escape.
closeBlock_escapeNotChecked(m, b) ==
    LET m1 == [m EXCEPT !.p.ignore = TRUE] IN
    IF isMain(m) THEN fail(m1, newError("Attempted to close main block"))
    ELSE
    LET blk == m.p.block
        catch1 == getParentCatch(m.heap, m.p.catch)
        m2 == [m1 EXCEPT !.heap[blk].closed = TRUE,
                         !.heap[blk].closePos = m.p.pos,
                         !.p.block = m.heap[blk].parent,
                         !.p.catch = catch1]
    IN
    IF catch1 = Nil THEN fail(m2, goPanic("nil catch"))
    ELSE handleByte([m2 EXCEPT !.heap[catch1].positioned = appendContent(@, blk)], b)

\* BLOCKS  b == '}'  (parseByte)
closeBlock(m, b) ==
    LET m1 == [m EXCEPT !.p.ignore = TRUE] IN
    IF m.p.escape THEN handleByte(m1, b)
    ELSE IF isMain(m) THEN fail(m1, newError("Attempted to close main block"))
    ELSE
    LET blk == m.p.block
        catch1 == getParentCatch(m.heap, m.p.catch)
        m2 == [m1 EXCEPT !.heap[blk].closed = TRUE,
                         !.heap[blk].closePos = m.p.pos,
                         !.p.block = m.heap[blk].parent,
                         !.p.catch = catch1]
    IN
    \* p.catch.appendContent on a nil catch
    IF catch1 = Nil THEN fail(m2, goPanic("nil catch"))
    ELSE handleByte([m2 EXCEPT !.heap[catch1].positioned = appendContent(@, blk)], b)

\* b == '\\'  (parseByte)
backslash(m, b) ==
    IF m.p.escape THEN handleByte(m, b) ELSE nextByte(m, b)

\* variable tokens in a block of type main  (parseByte)
variableToken(m, b) ==
    LET m1 == [m EXCEPT !.p.ignore = TRUE] IN
    IF m.p.escape THEN handleByte(m1, b)
    ELSE IF b \in {"@", "%"} /\ m.p.catch = m.p.block THEN
        \* entering a variable declaration
        LET negated == m.p.last = "-"
            pfx == IF negated THEN <<m.p.last, b>> ELSE <<b>>
            id == Len(m.heap) + 1
        IN handleByte([m1 EXCEPT
               !.p.varNotInterpolated = IF b = "%" THEN TRUE ELSE @,
               !.p.varNegated = IF negated THEN TRUE ELSE @,
               !.heap = Append(@, newParserVariableName(pfx, m.p.pos, m.p.catch)),
               !.p.catch = id], b)
    ELSE
        \* ':' / ';' / '-': nothing is done yet
        handleByte(m1, b)

\* parser.parseByte
parseByte(m, b) ==
    IF m.p.braceLevel # 0 THEN braceEscape(m, b)
    ELSE IF b = "/" /\ m.p.next = "*" THEN commentEntrance(m, b)
    ELSE IF b = "*" /\ m.p.next = "/" THEN commentExit(m, b)
    ELSE IF m.p.commentLevel # 0 THEN nextByte(m, b)
    ELSE IF b = "{" THEN openBlock(m, b)
    ELSE IF b = "}" THEN closeBlock(m, b)
    ELSE IF b = "\\" THEN backslash(m, b)
    ELSE IF isMain(m) /\ b \in variableTokens /\ m.p.last # "[" THEN variableToken(m, b)
    ELSE handleByte(m, b)

\* ---------------------------------------------------------------------
\* Parse and parseLine as steps.

\* &parser{block: mb}; p.catch = mb; p.pos.line = 1 (first line of the loop)
InitParser ==
    [pos |-> [line |-> 1, column |-> 0],
     last |-> Nul, this |-> Nul, next |-> Nul,
     skip |-> FALSE, ignore |-> FALSE, escape |-> FALSE,
     catch |-> 1, block |-> 1,
     commentLevel |-> 0, braceLevel |-> 0, braceFirst |-> FALSE,
     varNotInterpolated |-> FALSE, varNegated |-> FALSE]

\* What may follow the byte being consumed: any byte of B, a line end or
\* the end of input, while the input stays within n bytes.
Following(B, n) == IF Len(input) + 2 <= n THEN B \cup {NL, EOF} ELSE {EOF}

\* The state at the head of Parse's loop, before the first byte.
InitOver(B) ==
    /\ p = InitParser
    /\ heap = <<newBlock(TypMain, <<>>, <<>>, Nil, NoPos)>>
    /\ status = "running"
    /\ err = NoErr
    /\ ahead \in B \cup {NL, EOF}
    /\ lineIdx = 0
    /\ input = <<>>
    /\ page = NoPage
    /\ gallery = NoGallery
    /\ NoRuntime

\* parseLine: "skip this byte"
parseLineSkipOver(B, n) ==
    /\ status = "running"
    /\ ahead \notin {NL, EOF}
    /\ p.skip
    /\ p' = [p EXCEPT !.skip = FALSE]
    /\ lineIdx' = lineIdx + 1
    /\ input' = Append(input, ahead)
    /\ ahead' \in Following(B, n)
    /\ UNCHANGED <<heap, status, err, page, gallery, runtimeVars>>

\* parseLine: update column and bytes, then parseByte
parseLineOver(B, n) ==
    /\ status = "running"
    /\ ahead \notin {NL, EOF}
    /\ ~p.skip
    /\ \E nx \in Following(B, n) :
        LET m0 == [p |-> [p EXCEPT !.pos.column = lineIdx + 1,
                                   !.this = ahead,
                                   !.next = IF nx \in {NL, EOF} THEN Nul ELSE nx],
                   heap |-> heap, err |-> NoErr]
            m1 == parseByte(m0, ahead)
        IN /\ p' = m1.p
           /\ heap' = m1.heap
           /\ err' = m1.err
           /\ status' = IF m1.err = NoErr THEN "running"
                        ELSE IF m1.err.panic THEN "panic" ELSE "error"
           /\ ahead' = nx
    /\ lineIdx' = lineIdx + 1
    /\ input' = Append(input, ahead)
    /\ UNCHANGED <<page, gallery, runtimeVars>>

\* Parse: the next line of strings.Split(input, "\n")
ParseNextLineOver(B, n) ==
    /\ status = "running"
    /\ ahead = NL
    /\ p' = [p EXCEPT !.pos.line = @ + 1]
    /\ lineIdx' = 0
    /\ input' = Append(input, ahead)
    /\ ahead' \in Following(B, n)
    /\ UNCHANGED <<heap, status, err, page, gallery, runtimeVars>>

\* Parse: all lines done, return nil
ParseReturn ==
    /\ status = "running"
    /\ ahead = EOF
    /\ status' = "ok"
    /\ UNCHANGED <<p, heap, err, ahead, lineIdx, input, page, gallery, runtimeVars>>

\* Spec: inputs over Bytes, up to MaxLen bytes.
Init == InitOver(Bytes)

parseLineSkip == parseLineSkipOver(Bytes, MaxLen)

parseLine == parseLineOver(Bytes, MaxLen)

ParseNextLine == ParseNextLineOver(Bytes, MaxLen)

Next == parseLineSkip \/ parseLine \/ ParseNextLine \/ ParseReturn

Spec == Init /\ [][Next]_vars

\* SpecTokens: shorter inputs over TokenBytes.
InitTokens == InitOver(TokenBytes)

parseLineSkipTokens == parseLineSkipOver(TokenBytes, MaxTokLen)

parseLineTokens == parseLineOver(TokenBytes, MaxTokLen)

ParseNextLineTokens == ParseNextLineOver(TokenBytes, MaxTokLen)

NextTokens == parseLineSkipTokens \/ parseLineTokens \/ ParseNextLineTokens \/ ParseReturn

SpecTokens == InitTokens /\ [][NextTokens]_vars

\* SpecNest: longer inputs over NestBytes.
InitNest == InitOver(NestBytes)

parseLineSkipNest == parseLineSkipOver(NestBytes, MaxNest)

parseLineNest == parseLineOver(NestBytes, MaxNest)

ParseNextLineNest == ParseNextLineOver(NestBytes, MaxNest)

NextNest == parseLineSkipNest \/ parseLineNest \/ ParseNextLineNest \/ ParseReturn

SpecNest == InitNest /\ [][NextNest]_vars

\* parseLine's loop over the bytes i..n of a line, as one computation.
RECURSIVE feedLine(_, _, _, _)
feedLine(m, line, i, n) ==
    IF i > n \/ m.err # NoErr THEN m
    ELSE IF m.p.skip THEN feedLine([m EXCEPT !.p.skip = FALSE], line, i + 1, n)
    ELSE feedLine(parseByte([m EXCEPT !.p.pos.column = i,
                                      !.p.this = line[i],
                                      !.p.next = IF i < Len(line) THEN line[i + 1] ELSE Nul],
                            line[i]),
                  line, i + 1, n)

\* The texts SpecHeader puts before the "{".
HeaderTexts == UNION {[1..k -> HeaderBytes] : k \in 0..MaxHeader}

\* SpecHeader: Parse has consumed a one-line text over HeaderBytes and is
\* about to hand the "{" that ends the input to parseByte.
InitHeader ==
    \E s \in HeaderTexts :
        LET m == feedLine([p |-> InitParser,
                           heap |-> <<newBlock(TypMain, <<>>, <<>>, Nil, NoPos)>>,
                           err |-> NoErr],
                          s \o <<"{">>, 1, Len(s))
        IN /\ p = m.p
           /\ heap = m.heap
           /\ status = "running"
           /\ err = m.err
           /\ ahead = "{"
           /\ lineIdx = Len(s)
           /\ input = s
           /\ page = NoPage
           /\ gallery = NoGallery
           /\ NoRuntime

parseLineHeader == parseLineOver(HeaderBytes, 0)

NextHeader == parseLineHeader \/ ParseReturn

SpecHeader == InitHeader /\ [][NextHeader]_vars

\* SpecMain: inputs over MainBytes.
InitMain == InitOver(MainBytes)

parseLineSkipMain == parseLineSkipOver(MainBytes, MaxMain)

parseLineMain == parseLineOver(MainBytes, MaxMain)

ParseNextLineMain == ParseNextLineOver(MainBytes, MaxMain)

NextMain == parseLineSkipMain \/ parseLineMain \/ ParseNextLineMain \/ ParseReturn

SpecMain == InitMain /\ [][NextMain]_vars

\* ---------------------------------------------------------------------
\* Vocabulary of the properties.

\* The next step hands the byte `ahead` to parseByte.
Processing == status = "running" /\ ahead \notin {NL, EOF} /\ ~p.skip

\* The top-level block Parse creates.
Main == 1

\* An unescaped brace outside comments and brace-escape is next.
UnescapedBrace(b) ==
    Processing /\ ahead = b /\ ~p.escape /\ p.commentLevel = 0 /\ p.braceLevel = 0

\* The last item of a positioned list is the block i.
EndsWithBlock(pc, i) == pc # <<>> /\ pc[Len(pc)] = Blk(i)

\* Block i is an item of the positioned list.
HasBlock(pc, i) == \E k \in 1..Len(pc) : pc[k] = Blk(i)

\* ---------------------------------------------------------------------
\* C1: when Parse reports success no block opened by "{" is still open:
\* the current block and the active catch are the top-level main block.
\* (An input that ends inside an open block must end in an error.)
C1_EofInsideBlockIsError ==
    status = "ok" => (p.block = Main /\ p.catch = Main)

\* C2: an unescaped "{" that opens a block leaves the new block's content
\* empty (the brace is not text of the block), and after an unescaped "}"
\* the parent's content ends with the reference to the closed block (the
\* brace is not text of the parent).
C2_BracesAreNotContent ==
    [][ /\ (UnescapedBrace("{") /\ Len(heap') > Len(heap))
               => heap'[p'.block].positioned = <<>>
        /\ (UnescapedBrace("}") /\ status' = "running")
               => EndsWithBlock(heap'[p'.catch].positioned, p.block) ]_vars

\* C3: in a successful parse every closed block is an item of the content
\* of its own parent, and no block is closed while a child of it is open.
C3_ClosedIntoOwnParent ==
    status = "ok" =>
        \A b \in 1..Len(heap) :
            (heap[b].kind = catchTypeBlock /\ heap[b].closed) =>
                /\ HasBlock(heap[heap[b].parent].positioned, b)
                /\ \A c \in 1..Len(heap) :
                       (heap[c].kind = catchTypeBlock /\ heap[c].parent = b) => heap[c].closed

\* C4: an unescaped "}" met outside comments and brace-escape while the
\* current block is the top-level main block ends the parse with the error
\* "Attempted to close main block", and the main block is never marked closed.
C4_CloseMainIsError ==
    /\ [][ (UnescapedBrace("}") /\ p.block = Main)
              => /\ status' = "error"
                 /\ err'.msg = "Attempted to close main block"
                 /\ ~heap'[Main].closed ]_vars
    /\ [](~heap[Main].closed)

\* C4 witness: the parse has stopped on a "}" with that error.
C4_Witness ==
    status = "error" /\ err.msg = "Attempted to close main block" /\ p.this = "}"

\* C5: inside a brace-escape region the content of the escaped block is
\* exactly the bytes read since the opening "{{" (here: while the region is
\* still on the line of its opener), so that `code{{ if x { y } }}` gives
\* the block the content ` if x { y } `.
C5_EscapedContentIsLiteral ==
    (status = "running" /\ p.braceLevel > 0 /\ ~p.braceFirst
        /\ heap[p.block].openPos.line = p.pos.line)
    => LET k == lineIdx - heap[p.block].openPos.column - 1 IN
       heap[p.block].positioned =
           IF k = 0 THEN <<>>
           ELSE <<Str(SubSeq(input, Len(input) - k + 1, Len(input)))>>

\* The byte that is next has syntactic meaning where it stands: a brace or
\* a variable token outside a comment, or the "/" of "/*".
Syntactic ==
    \/ ahead \in {"{", "}", "@", "%", ":", ";"} /\ p.commentLevel = 0
    \/ ahead = "/" /\ ahead' = "*"

\* C6: a byte with syntactic meaning that is processed while the escape
\* flag is set opens and closes no block, changes no comment or brace level,
\* starts no variable catch and sets no skip; it is appended (with or
\* without its backslash) to the active catch, and nothing else changes in
\* any catch.
C6_EscapedByteIsContent ==
    [][ (Processing /\ p.escape /\ Syntactic)
           => /\ status' = "running"
              /\ p'.block = p.block
              /\ p'.catch = p.catch
              /\ p'.commentLevel = p.commentLevel
              /\ p'.braceLevel = p.braceLevel
              /\ ~p'.skip
              /\ \E add \in {<<ahead>>, <<"\\", ahead>>} :
                    heap' = [heap EXCEPT ![p.catch].positioned = appendString(@, add)] ]_vars

\* C6 witness: `:{\}` has been read; the escaped "}" closed nothing and is
\* text of the open block.
C6_Witness ==
    /\ status = "running"
    /\ input = <<":", "{", "\\", "}">>
    /\ p.block = 2
    /\ ~heap[2].closed
    /\ lastString(heap[2].positioned) # <<>>

\* C7: when an escaped byte is appended as content outside a comment, the
\* backslash is put back in front of it if the byte has no special meaning
\* (a word byte), and is not if the byte has one (a brace).
C7_BackslashOnlyForPlainBytes ==
    [][ (Processing /\ p.escape /\ p.commentLevel = 0 /\ status' = "running")
           => /\ ahead \in {"{", "}"}
                  => heap' = [heap EXCEPT ![p.catch].positioned = appendString(@, <<ahead>>)]
              /\ isWord(ahead)
                  => heap' = [heap EXCEPT ![p.catch].positioned = appendString(@, <<"\\", ahead>>)] ]_vars

\* C8: the escape flag is set after a processed byte exactly when that byte
\* is a backslash that was not itself escaped, outside brace-escape; so it
\* is true for the one byte processed next and false after it.  A skipped
\* byte and a line boundary leave the flag as it is, and an unescaped
\* backslash never stops the parse.
C8_EscapeForExactlyNextByte ==
    [][ IF Processing
        THEN /\ status' = "running"
                   => (p'.escape <=> (ahead = "\\" /\ ~p.escape /\ p.braceLevel = 0))
             /\ (ahead = "\\" /\ ~p.escape /\ p.braceLevel = 0) => status' = "running"
        ELSE p'.escape = p.escape ]_vars

\* C8 witness: inside a comment a backslash ended the line; the flag is
\* set for the first byte of the next line.
C8_Witness ==
    /\ status = "running"
    /\ p.escape
    /\ p.commentLevel > 0
    /\ lineIdx = 0
    /\ p.pos.line > 1

\* C9: outside brace-escape an unescaped "/*" raises commentLevel by one, a
\* "*/" met with commentLevel > 0 lowers it by one, a "*/" met with
\* commentLevel 0 is content, and while commentLevel > 0 nothing is
\* appended to any catch.
C9_CommentsNest ==
    [][ (Processing /\ p.braceLevel = 0)
           => /\ (ahead = "/" /\ ahead' = "*" /\ ~p.escape)
                  => p'.commentLevel = p.commentLevel + 1
              /\ (ahead = "*" /\ ahead' = "/" /\ p.commentLevel > 0)
                  => p'.commentLevel = p.commentLevel - 1
              /\ (ahead = "*" /\ ahead' = "/" /\ p.commentLevel = 0)
                  => /\ p'.commentLevel = 0
                     /\ heap' = [heap EXCEPT ![p.catch].positioned = appendString(@, <<"*">>)]
              /\ p.commentLevel > 0 => heap' = heap ]_vars

\* C10: a byte processed inside a comment region (commentLevel > 0 before
\* or after it) changes no catch: nothing is appended, and no block is
\* opened or closed.
C10_CommentBytesDiscarded ==
    [][ (Processing /\ (p.commentLevel > 0 \/ p'.commentLevel > 0))
           => (heap' = heap /\ p'.block = p.block /\ p'.catch = p.catch) ]_vars

\* ---------------------------------------------------------------------
\* The raw block type the backward scan finds in the last content string
\* (empty when there is no last string to scan).
scannedType(s) ==
    IF s = <<>> THEN <<>> ELSE scanHeader(s, Len(s), 0, 0, <<>>, <<>>).blockType

\* C11: an unescaped "{" (not the "{@" of a variable) whose header scan
\* finds no type opens a block of type map, whatever precedes it: text
\* that is no type, no text at all, or a child block.
C11_EmptyTypeOpensMap ==
    [][ (UnescapedBrace("{") /\ ahead' # "@" /\ p.catch # Nil
            /\ scannedType(lastString(heap[p.catch].positioned)) = <<>>)
        => /\ status' = "running"
           /\ Len(heap') = Len(heap) + 1
           /\ p'.block = Len(heap')
           /\ heap'[p'.block].typ = TypMap ]_vars

\* ---------------------------------------------------------------------
\* Byte k of s lies between a "[" and a "]" of s.
InBrackets(s, k) ==
    /\ \E i \in 1..(k - 1) : s[i] = "["
    /\ \E j \in (k + 1)..Len(s) : s[j] = "]"

\* s holds only text a header is made of: outside brackets, type bytes,
\* whitespace and one leading tilde.
IsHeader(s) ==
    \A k \in 1..Len(s) :
        (s[k] \notin {"[", "]"} /\ ~InBrackets(s, k))
            => (isTypeByte(s[k]) \/ isSpace(s[k]) \/ (s[k] = "~" /\ k = 1))

\* C12: when a "{" opens a block, the content of the new block's parent
\* keeps all its earlier items, and its last string loses exactly the
\* header: what stays is a prefix of the old string, what is dropped is
\* header text (type and classes, bracketed name, whitespace, a leading
\* tilde), and no type byte of the header is left behind.
C12_HeaderStripped ==
    [][ (UnescapedBrace("{") /\ Len(heap') > Len(heap))
        => LET par == heap'[Len(heap')].parent
               old == heap[par].positioned
               new == heap'[par].positioned
               os == lastString(old)
               ns == lastString(new)
               sfx == SubSeq(os, Len(ns) + 1, Len(os))
           IN /\ Len(new) = Len(old)
              /\ \A k \in 1..(Len(old) - 1) : new[k] = old[k]
              /\ Len(ns) <= Len(os)
              /\ SubSeq(os, 1, Len(ns)) = ns
              /\ IsHeader(sfx)
              /\ (ns = <<>> \/ sfx = <<>> \/ sfx[1] = "~" \/ ~isTypeByte(ns[Len(ns)])) ]_vars

\* The number of bytes c among the first k bytes of s.
CountOf(s, c, k) == Cardinality({j \in 1..k : s[j] = c})

\* Every "[" of s has its "]" in s and the other way round.
Balanced(s) ==
    /\ \A k \in 1..Len(s) : CountOf(s, "[", k) >= CountOf(s, "]", k)
    /\ CountOf(s, "[", Len(s)) = CountOf(s, "]", Len(s))

\* s is a header with one bracketed name: no bracket before position i,
\* "[" at i, its matching "]" as the last byte.
NameAt(s, i) ==
    /\ Len(s) >= 2
    /\ s[Len(s)] = "]"
    /\ s[i] = "["
    /\ \A k \in 1..(i - 1) : s[k] \notin {"[", "]"}
    /\ Balanced(SubSeq(s, i + 1, Len(s) - 1))

\* C13: the name of a block opened by "{" is the text between the
\* outermost "[" of the header and its matching "]", nested pairs kept as
\* they are; where the text before the "{" has no "]" the name is empty
\* (no byte outside brackets becomes part of the name).
C13_NameIsBracketedText ==
    [][ (UnescapedBrace("{") /\ Len(heap') > Len(heap))
        => LET os == lastString(heap[p.catch].positioned)
               name == heap'[Len(heap')].name
           IN /\ \A i \in 1..Len(os) :
                     NameAt(os, i) => name = SubSeq(os, i + 1, Len(os) - 1)
              /\ (\A k \in 1..Len(os) : os[k] # "]") => name = <<>> ]_vars

\* ---------------------------------------------------------------------
\* A byte that is neither escaped nor in a comment or a brace-escape is
\* handed to parseByte.
Unescaped == Processing /\ ~p.escape /\ p.commentLevel = 0 /\ p.braceLevel = 0

\* C14: a variable-name catch is created only by an "@" or "%" met while
\* the current block is the top-level main block, the active catch is that
\* block and the previous byte is not "["; in a child block the bytes
\* "@", "%", ":", ";" and "-" are appended to the active catch as
\* ordinary content and no catch is created or ended.
C14_VariablesOnlyInMain ==
    [][ /\ (Processing /\ Len(heap') > Len(heap)
                /\ heap'[Len(heap')].kind = catchTypeVariableName)
            => /\ ahead \in {"@", "%"}
               /\ p.block = Main
               /\ p.catch = p.block
               /\ p.last # "["
        /\ (Unescaped /\ ahead \in variableTokens /\ p.block # Main /\ p.catch # Nil)
            => /\ status' = "running"
               /\ Len(heap') = Len(heap)
               /\ p'.catch = p.catch
               /\ heap'[p.catch].positioned
                      = appendString(heap[p.catch].positioned, <<ahead>>) ]_vars

\* ---------------------------------------------------------------------
\* C15: when the active catch rejects a byte the parse stops with an error
\* that carries the line and column of that byte and names the kind of
\* the catch, and the content of the catch is what it was before the byte
\* (empty for a catch the byte itself created).
C15_InvalidByteIsPositional ==
    [][ (Processing /\ status' = "error" /\ err'.msg = "Invalid byte")
        => LET c == p'.catch IN
           /\ err'.byte = ahead
           /\ err'.catchType = heap'[c].kind
           /\ heap'[c].positioned = (IF c <= Len(heap) THEN heap[c].positioned ELSE <<>>)
           /\ err'.pos = [line |-> p.pos.line, column |-> lineIdx + 1] ]_vars

\* ---------------------------------------------------------------------
\* The Page: its variables page.created and page.redirect, its file, and
\* the methods Created and Redirect.  Strings are sequences of bytes.

\* Longest value of page.created explored by SpecPage (the HTTP date apart).
MaxCreated == 3

\* The bytes of the values of page.created: digits, a sign, a letter.
CreatedBytes == {"1", "2", "-", "x"}

\* A variable that is not set, one whose value is no string, and a string.
Absent == [kind |-> "absent", s |-> <<>>]
NotString == [kind |-> "other", s |-> <<>>]
StrVal(s) == [kind |-> "string", s |-> s]

\* GetStr: the string value of a variable; the empty string with an error
\* when the value is not a string, the empty string when it is not set.
GetStr(v) ==
    [str |-> IF v.kind = "string" THEN v.s ELSE <<>>,
     err |-> v.kind \notin {"string", "absent"}]

\* The decimal digits in order of their value.
Digits == <<"0", "1", "2", "3", "4", "5", "6", "7", "8", "9">>

DigitValue(c) == (CHOOSE i \in 1..Len(Digits) : Digits[i] = c) - 1

RECURSIVE digitsValue(_)
digitsValue(s) ==
    IF s = <<>> THEN 0
    ELSE digitsValue(SubSeq(s, 1, Len(s) - 1)) * 10 + DigitValue(s[Len(s)])

\* strconv.ParseInt(s, 10, 0) and strconv.Atoi(s): an optional sign and at
\* least one digit; 0 with an error otherwise.  (The values explored stay
\* far inside the range of int.)
ParseInt(s) ==
    LET signed == s # <<>> /\ s[1] \in {"+", "-"}
        ds == IF signed THEN Tail(s) ELSE s
        ok == ds # <<>> /\ \A k \in 1..Len(ds) : ds[k] \in Digit
    IN [err |-> ~ok,
        n |-> IF ~ok THEN 0
              ELSE IF s[1] = "-" THEN 0 - digitsValue(ds) ELSE digitsValue(ds)]

\* time.Time: the zero value (year 1) or an instant in Unix seconds.
ZeroTime == [isZero |-> TRUE, unix |-> 0]

\* time.Unix(n, 0)
Unix(n) == [isZero |-> FALSE, unix |-> n]

\* The date "Thu, 01 Jan 1970 00:01:00 GMT".
HttpDate ==
    <<"T", "h", "u", ",", " ", "0", "1", " ", "J", "a", "n", " ", "1", "9", "7", "0", " ",
      "0", "0", ":", "0", "1", ":", "0", "0", " ", "G", "M", "T">>

\* httpdate.Str2Time(s, time.UTC): the instant of a date string, the zero
\* time (with an error) for a string that is no date.
Str2Time(s) == IF s = HttpDate THEN Unix(60) ELSE ZeroTime

\* Page.Created
Created(pg) ==
    LET created == GetStr(pg.created).str IN
    IF created = <<>> THEN ZeroTime
    ELSE LET r == ParseInt(created) IN
         IF r.err THEN Unix(r.n)
         ELSE Str2Time(created)

\* Opt.Dir.Page, the directory of the page files, and Opt.Root.Page, the
\* root of the public page URLs.
DirPage == <<"/", "p">>
RootPage == <<"/", "r">>

\* Page.FilePath: the page file /p/a.w.
FilePath == <<"/", "p", "/", "a", ".", "w">>

\* Where a symbolic link at FilePath may point: into the page directory,
\* into a directory next to it whose name starts alike, and elsewhere.
LinkTargets ==
    { <<"/", "p", "/", "b", ".", "w">>,
      <<"/", "p", "q", "/", "b", ".", "w">>,
      <<"/", "q", "/", "b", ".", "w">> }

\* strings.HasPrefix, strings.TrimPrefix
HasPrefix(s, pre) == Len(pre) <= Len(s) /\ SubSeq(s, 1, Len(pre)) = pre
TrimPrefix(s, pre) == IF HasPrefix(s, pre) THEN SubSeq(s, Len(pre) + 1, Len(s)) ELSE s

\* The last index of byte c in s, 0 when s does not hold it.
LastIndex(s, c) ==
    IF \A k \in 1..Len(s) : s[k] # c THEN 0
    ELSE CHOOSE k \in 1..Len(s) : s[k] = c /\ \A j \in (k + 1)..Len(s) : s[j] # c

\* filepath.Base of a clean path
Base(path) == SubSeq(path, LastIndex(path, "/") + 1, Len(path))

\* PageNameNE: a page name without its extension.
PageNameNE(name) ==
    LET dot == LastIndex(name, ".") IN
    IF dot > LastIndex(name, "/") THEN SubSeq(name, 1, dot - 1) ELSE name

\* pageAbs: the absolute path with symbolic links followed.  The paths
\* here are absolute and clean, the only link is the page file.
pageAbs(pg, path) ==
    IF path = FilePath /\ pg.file.kind = "symlink" THEN pg.file.target ELSE path

\* Page.RelPath, Page.Path
RelPath(pg) == FilePath
Path(pg) == pageAbs(pg, RelPath(pg))

\* Page.Name, Page.NameNE
Name(pg) ==
    LET dir == pageAbs(pg, DirPage)
        path == Path(pg)
        name == TrimPrefix(TrimPrefix(path, dir), <<"/">>)
    IN IF ~HasPrefix(path, dir) THEN Base(RelPath(pg)) ELSE name
NameNE(pg) == PageNameNE(Name(pg))

\* A file that is not on disk: os.Lstat returns a nil FileInfo for it.
NoFile == [kind |-> "nofile"]

\* How a call of a method ends: a nil FileInfo was dereferenced and the
\* goroutine panics, or the method returns a value.
Panicked == [panic |-> TRUE]
Value(v) == [panic |-> FALSE, val |-> v]

\* Page.IsSymlink
IsSymlink(pg) ==
    LET dirPage == pageAbs(pg, DirPage) IN
    IF ~HasPrefix(Path(pg), dirPage) THEN Value(FALSE)
    ELSE IF pg.file.kind = "nofile" THEN Panicked
    ELSE Value(pg.file.kind = "symlink")

\* The links parseLink understands, here the names of pages.
PageLinks == {<<"y">>}

\* parseLink: whether the text is a link, and the URL it points to.
parseLink(link) ==
    [ok |-> link \in PageLinks,
     target |-> IF link \in PageLinks THEN RootPage \o <<"/">> \o link ELSE <<>>]

\* Page.Redirect
Redirect(pg) ==
    IF IsSymlink(pg).val THEN pageAbs(pg, RootPage \o <<"/">> \o NameNE(pg))
    ELSE LET g == GetStr(pg.redirect) IN
         IF g.err THEN <<>>
         ELSE LET l == parseLink(g.str) IN
              IF l.ok THEN l.target ELSE <<>>

\* The values of page.created and page.redirect and the page files explored.
CreatedValues ==
    {Absent, NotString, StrVal(HttpDate)}
    \cup {StrVal(s) : s \in UNION {[1..k -> CreatedBytes] : k \in 0..MaxCreated}}
RedirectValues == {Absent, NotString, StrVal(<<"y">>), StrVal(<<"?">>)}
PageFiles ==
    {[kind |-> "regular", target |-> <<>>]}
    \cup {[kind |-> "symlink", target |-> t] : t \in LinkTargets}

\* SpecPage: a parsed page; Created and Redirect are each called once.
InitPage ==
    /\ p = InitParser
    /\ heap = <<newBlock(TypMain, <<>>, <<>>, Nil, NoPos)>>
    /\ status = "ok"
    /\ err = NoErr
    /\ ahead = EOF
    /\ lineIdx = 0
    /\ input = <<>>
    /\ gallery = NoGallery
    /\ NoRuntime
    /\ \E c \in CreatedValues, r \in RedirectValues, f \in PageFiles :
           page = [kind |-> "page", created |-> c, redirect |-> r, file |-> f,
                   createdRet |-> [called |-> FALSE, time |-> ZeroTime],
                   redirectRet |-> [called |-> FALSE, url |-> <<>>]]

PageCreated ==
    /\ page.kind = "page"
    /\ ~page.createdRet.called
    /\ page' = [page EXCEPT !.createdRet = [called |-> TRUE, time |-> Created(page)]]
    /\ UNCHANGED <<parserVars, gallery, runtimeVars>>

PageRedirect ==
    /\ page.kind = "page"
    /\ ~page.redirectRet.called
    /\ page' = [page EXCEPT !.redirectRet = [called |-> TRUE, url |-> Redirect(page)]]
    /\ UNCHANGED <<parserVars, gallery, runtimeVars>>

NextPage == PageCreated \/ PageRedirect

SpecPage == InitPage /\ [][NextPage]_vars

\* A decimal integer: an optional sign and digits only.
IsDecimal(s) ==
    LET ds == IF s # <<>> /\ s[1] \in {"+", "-"} THEN Tail(s) ELSE s IN
    ds # <<>> /\ \A k \in 1..Len(ds) : ds[k] \in Digit

\* C16: Created returns the instant page.created gives in Unix seconds
\* when the value is a decimal integer, else the instant it gives as an
\* HTTP date, and the zero time when the variable is not set (or is no
\* string) or is neither.
C16_CreatedFromVariable ==
    (page.kind = "page" /\ page.createdRet.called)
    => page.createdRet.time =
          (IF page.created.kind # "string" THEN ZeroTime
           ELSE IF IsDecimal(page.created.s) THEN Unix(ParseInt(page.created.s).n)
           ELSE Str2Time(page.created.s))

\* The directory dir holds the path (it is below it).
Inside(path, dir) == HasPrefix(path, dir \o <<"/">>)

\* C17: Redirect returns the public URL of the link target when the page
\* file is a symbolic link to a file inside the page directory, whatever
\* page.redirect is; otherwise the target of page.redirect when that is a
\* string that parses as a link; otherwise the empty string.
C17_RedirectResolution ==
    (page.kind = "page" /\ page.redirectRet.called)
    => page.redirectRet.url =
          (IF page.file.kind = "symlink" /\ Inside(page.file.target, DirPage)
           THEN RootPage \o <<"/">>
                   \o PageNameNE(SubSeq(page.file.target, Len(DirPage) + 2,
                                        Len(page.file.target)))
           ELSE IF page.redirect.kind = "string" /\ parseLink(page.redirect.s).ok
           THEN parseLink(page.redirect.s).target
           ELSE <<>>)

\* ---------------------------------------------------------------------
\* The gallery block.  A gallery is a map: an ordered list of keys with
\* values that are strings, image blocks, other blocks or something else.
\* Keys are sequences of pieces, so that "anon_" is a prefix of the keys
\* of the anonymous values.

\* Most keys in a gallery explored by SpecGallery, and most calls of parse.
MaxKeys == 3
MaxParses == 2

\* newGalleryBlock: the thumbnail height of a new gallery
DefaultThumbHeight == 220

\* Opt.Root.Image
RootImage == "/image"

\* The path of a full-size image and of a scaled one (WxH-file).
FullPath(file) == [root |-> RootImage, sized |-> FALSE, w |-> 0, h |-> 0, file |-> file]
SizedPath(file, w, h) == [root |-> RootImage, sized |-> TRUE, w |-> w, h |-> h, file |-> file]
NoPath == [root |-> "", sized |-> FALSE, w |-> 0, h |-> 0, file |-> ""]

\* The image blocks a gallery may hold, as created: image { file; width; height }
NewImages ==
    <<[file |-> "a.png", width |-> 100, height |-> 50, parsedDimensions |-> FALSE,
       path |-> NoPath, description |-> Absent, desc |-> Absent],
      [file |-> "b.png", width |-> 0, height |-> 30, parsedDimensions |-> FALSE,
       path |-> NoPath, description |-> Absent, desc |-> Absent]>>

\* The values of `description` and `desc` an image block may have: both
\* strings, an empty description, no description, a description that is
\* no string, neither.
ImageDescs ==
    {[description |-> StrVal(<<"d">>), desc |-> StrVal(<<"e">>)],
     [description |-> StrVal(<<>>), desc |-> StrVal(<<"e">>)],
     [description |-> Absent, desc |-> StrVal(<<"e">>)],
     [description |-> NotString, desc |-> StrVal(<<"e">>)],
     [description |-> Absent, desc |-> Absent]}

\* Values of a map: an image block (by its index), a block that is no image.
ImgVal(i) == [kind |-> "image", s |-> <<>>, img |-> i]
BlockVal == [kind |-> "block", s |-> <<>>, img |-> 0]
MapStr(s) == [kind |-> "string", s |-> s, img |-> 0]
MapOther == [kind |-> "other", s |-> <<>>, img |-> 0]

KeyThumbHeight == <<"thumb_height">>

\* The keys explored, each with the values it may have.
GalleryValues ==
    [k \in {KeyThumbHeight, <<"anon_", "0">>, <<"anon_", "1">>, <<"title">>} |->
        CASE k = KeyThumbHeight ->
                 {MapStr(<<"9">>), MapStr(<<"1", "2">>), MapStr(<<"x">>), MapStr(<<>>),
                  MapOther, BlockVal}
          [] k = <<"anon_", "0">> -> {ImgVal(1), BlockVal, MapStr(<<"x">>)}
          [] k = <<"anon_", "1">> -> {ImgVal(2)}
          [] OTHER -> {MapStr(<<"x">>)}]

\* g.warn(pos, msg): warnings carry the key they are about
warn(g, key, msg) == [g EXCEPT !.warnings = Append(@, [key |-> key, msg |-> msg])]

\* imageBlock.parse: the path of the image at the requested dimensions, and
\* the dimensions registered with the page.
imageParse(g, i) ==
    LET img == g.imgs[i] IN
    [g EXCEPT !.imgs[i].path = SizedPath(img.file, img.width, img.height),
              !.pageImages[img.file] = Append(@, <<img.width, img.height>>)]

\* Map.parse: the values of the map are parsed, once.
RECURSIVE mapParseFrom(_, _)
mapParseFrom(g, k) ==
    IF k > Len(g.keys) THEN g
    ELSE mapParseFrom(IF g.keys[k].val.kind = "image"
                      THEN imageParse(g, g.keys[k].val.img) ELSE g, k + 1)
MapParse(g) == IF g.didParse THEN g ELSE [mapParseFrom(g, 1) EXCEPT !.didParse = TRUE]

\* GetBlock: the block value of a key, an error when the value is no block
GetBlock(v) == [err |-> v.kind \notin {"image", "block"}]

\* galleryBlock.addImage
addImage(g, i) ==
    LET g1 == [g EXCEPT !.imgs[i].height = g.thumbHeight,
                        !.imgs[i].width = 0,
                        !.imgs[i].parsedDimensions = TRUE]
        g2 == imageParse(g1, i)
        entry == [thumbPath |-> g2.imgs[i].path, img |-> i]
    IN [g2 EXCEPT !.imgs[i].path = FullPath(g2.imgs[i].file),
                  !.images = Append(@, entry)]

\* The thumb_height case with the `break` after the failed conversion left
\* out: the height becomes what Atoi returned.
thumbHeightKey_noBreak(g, key, v) ==
    LET s == GetStr(v) IN
    IF s.err THEN warn(g, key, "not a string")
    ELSE LET a == ParseInt(s.str) IN
         IF a.err THEN [warn(g, key, "thumb_height: expected integer") EXCEPT !.thumbHeight = a.n]
         ELSE [g EXCEPT !.thumbHeight = a.n]

\* galleryBlock.parse, case "thumb_height"
thumbHeightKey(g, key, v) ==
    LET s == GetStr(v) IN
    IF s.err THEN warn(g, key, "not a string")
    ELSE LET a == ParseInt(s.str) IN
         IF a.err THEN warn(g, key, "thumb_height: expected integer")
         ELSE [g EXCEPT !.thumbHeight = a.n]

\* galleryBlock.parse, default case
imageKey(g, key, v) ==
    IF ~HasPrefix(key, <<"anon_">>) THEN warn(g, key, "Invalid key")
    ELSE IF GetBlock(v).err THEN warn(g, key, "not a block")
    ELSE IF v.kind # "image" THEN warn(g, key, "expected Block<image{}>")
    ELSE addImage(g, v.img)

\* galleryBlock.parse: the loop over g.OrderedKeys(), from key k on
RECURSIVE sortOut(_, _)
sortOut(g, k) ==
    IF k > Len(g.keys) THEN g
    ELSE LET key == g.keys[k].key
             v == g.keys[k].val
         IN sortOut(IF key = KeyThumbHeight THEN thumbHeightKey(g, key, v)
                    ELSE imageKey(g, key, v), k + 1)

\* galleryBlock.parse
galleryParse(g) == sortOut(MapParse(g), 1)

\* The maps explored: up to MaxKeys keys, no key twice, in every order.
GalleryMaps ==
    LET K == DOMAIN GalleryValues
        E == UNION {{[key |-> k, val |-> v] : v \in GalleryValues[k]} : k \in K}
    IN {m \in UNION {[1..n -> E] : n \in 0..MaxKeys} :
           \A i, j \in 1..Len(m) : i # j => m[i].key # m[j].key}

\* SpecGallery: a gallery as newGalleryBlock made it; parse is called on
\* it up to MaxParses times.
InitGallery ==
    /\ p = InitParser
    /\ heap = <<newBlock(TypMain, <<>>, <<>>, Nil, NoPos)>>
    /\ status = "ok"
    /\ err = NoErr
    /\ ahead = EOF
    /\ lineIdx = 0
    /\ input = <<>>
    /\ page = NoPage
    /\ NoRuntime
    /\ \E m \in GalleryMaps, d \in [1..Len(NewImages) -> ImageDescs] :
           gallery = [kind |-> "gallery",
                      thumbHeight |-> DefaultThumbHeight,
                      images |-> <<>>,
                      warnings |-> <<>>,
                      anchors |-> <<>>,
                      htmlDone |-> FALSE,
                      keys |-> m,
                      imgs |-> [i \in 1..Len(NewImages) |->
                                   [NewImages[i] EXCEPT !.description = d[i].description,
                                                        !.desc = d[i].desc]],
                      pageImages |-> [f \in {"a.png", "b.png"} |-> <<>>],
                      didParse |-> FALSE,
                      parses |-> 0]

GalleryParse ==
    /\ gallery.kind = "gallery"
    /\ ~gallery.htmlDone
    /\ gallery.parses < MaxParses
    /\ gallery' = [galleryParse(gallery) EXCEPT !.parses = @ + 1]
    /\ UNCHANGED <<parserVars, page, runtimeVars>>

\* galleryBlock.html, the loop over g.images: the anchor children of the
\* gallery's element, from entry k on.
RECURSIVE galleryHtml(_, _)
galleryHtml(g, k) ==
    IF k > Len(g.images) THEN <<>>
    ELSE LET entry == g.images[k]
             img == g.imgs[entry.img]
             description == GetStr(img.description).str
             desc == IF description = <<>> THEN GetStr(img.desc).str ELSE description
         IN <<[href |-> img.path, ngthumb |-> entry.thumbPath, ngdesc |-> desc]>>
            \o galleryHtml(g, k + 1)

\* galleryBlock.html: the page generates the HTML of a parsed gallery.
GalleryHtml ==
    /\ gallery.kind = "gallery"
    /\ gallery.parses >= 1
    /\ ~gallery.htmlDone
    /\ gallery' = [gallery EXCEPT !.anchors = galleryHtml(gallery, 1), !.htmlDone = TRUE]
    /\ UNCHANGED <<parserVars, page, runtimeVars>>

NextGallery == GalleryParse \/ GalleryHtml

SpecGallery == InitGallery /\ [][NextGallery]_vars

\* The value of the key thumb_height in the map, Absent when it has none.
ThumbHeightValue(g) ==
    IF \E k \in 1..Len(g.keys) : g.keys[k].key = KeyThumbHeight
    THEN g.keys[CHOOSE k \in 1..Len(g.keys) : g.keys[k].key = KeyThumbHeight].val
    ELSE Absent

\* The map has a thumb_height that is a string holding an integer.
ValidThumbHeight(g) ==
    ThumbHeightValue(g).kind = "string" /\ IsDecimal(ThumbHeightValue(g).s)

\* The warnings about the key thumb_height.
ThumbHeightWarnings(g) ==
    {k \in 1..Len(g.warnings) : g.warnings[k].key = KeyThumbHeight}

\* C18: after parse the thumbnail height is 220 when the gallery has no
\* valid thumb_height; a thumb_height that is no string or no integer has
\* added a warning in every parse and the height is the one before it; a
\* valid integer is the height.
C18_ThumbHeight ==
    (gallery.kind = "gallery" /\ gallery.parses >= 1)
    => /\ gallery.thumbHeight =
              (IF ValidThumbHeight(gallery) THEN ParseInt(ThumbHeightValue(gallery).s).n
               ELSE DefaultThumbHeight)
       /\ Cardinality(ThumbHeightWarnings(gallery)) =
              (IF ThumbHeightValue(gallery).kind = "absent" \/ ValidThumbHeight(gallery)
               THEN 0 ELSE gallery.parses)

\* C18 witness: a gallery whose thumb_height is a string that is no
\* integer has been parsed: a warning, and the height is still 220.
C18_Witness ==
    /\ gallery.kind = "gallery" /\ gallery.parses >= 1
    /\ ThumbHeightValue(gallery) = MapStr(<<"x">>)
    /\ gallery.thumbHeight = DefaultThumbHeight
    /\ ThumbHeightWarnings(gallery) # {}

\* The thumbnail height the gallery asks for.
WantedHeight(g) ==
    IF ValidThumbHeight(g) THEN ParseInt(ThumbHeightValue(g).s).n ELSE DefaultThumbHeight

\* C19: after parse every entry of the gallery is an image that was
\* re-parsed with width 0 and the height thumb_height asks for, wherever
\* in the gallery the key stands; the entry holds the thumbnail path of
\* that re-parse and its image the full-size path.
C19_ThumbnailsUseThumbHeight ==
    (gallery.kind = "gallery" /\ gallery.parses >= 1)
    => \A k \in 1..Len(gallery.images) :
           LET e == gallery.images[k]
               img == gallery.imgs[e.img]
           IN /\ img.width = 0
              /\ img.height = WantedHeight(gallery)
              /\ e.thumbPath = SizedPath(img.file, 0, WantedHeight(gallery))
              /\ img.path = FullPath(img.file)

\* C20: a second parse of the same gallery leaves the list of image
\* entries, the image blocks and the page's images map as the first parse
\* left them.
C20_ParseIsIdempotent ==
    [][ (gallery.kind = "gallery" /\ gallery.parses >= 1)
        => /\ gallery'.images = gallery.images
           /\ gallery'.imgs = gallery.imgs
           /\ gallery'.pageImages = gallery.pageImages ]_vars

\* A key of the gallery that parse accepts as an image.
AcceptedKey(e) == HasPrefix(e.key, <<"anon_">>) /\ e.val.kind = "image"

\* The description html gives an image: `description`, or `desc` when
\* that is empty.
DescriptionOrDesc(img) ==
    IF img.description.kind = "string" /\ img.description.s # <<>>
    THEN img.description.s
    ELSE IF img.desc.kind = "string" THEN img.desc.s ELSE <<>>

\* C33: the anchors html emits are the images of the gallery that parse
\* accepts, one anchor each and in the order of their keys; an anchor has
\* the full-size path of its image as href, the image's thumbnail path as
\* data-ngthumb and its description, or its desc when the description is
\* empty, as data-ngdesc; every other key but thumb_height has a warning.
C33_OneAnchorPerImage ==
    (gallery.kind = "gallery" /\ gallery.htmlDone)
    => LET accepted == SelectSeq(gallery.keys, AcceptedKey) IN
       /\ Len(gallery.anchors) = Len(accepted)
       /\ \A k \in 1..Len(accepted) :
              k <= Len(gallery.anchors)
              => LET img == gallery.imgs[accepted[k].val.img]
                     a == gallery.anchors[k]
                 IN /\ a.href = FullPath(img.file)
                    /\ a.ngthumb = SizedPath(img.file, img.width, img.height)
                    /\ a.ngdesc = DescriptionOrDesc(img)
       /\ \A k \in 1..Len(gallery.keys) :
              (~AcceptedKey(gallery.keys[k]) /\ gallery.keys[k].key # KeyThumbHeight)
              => \E w \in 1..Len(gallery.warnings) :
                     gallery.warnings[w].key = gallery.keys[k].key


\* ---------------------------------------------------------------------------
\* The wiki: page display, the page cache, the category index and the
\* requests in flight.  Time is a clock that only ticks forward; a file's
\* modification time is the clock's value when it was last written.
\* ---------------------------------------------------------------------------

\* bounds
MaxClock == 1
MaxCalls == 3
MaxEdits == 1

WikiPages == {"a", "b"}
Cats == {"x", "y"}
Models == {"m"}
Callers == {1, 2}

\* A page source: the categories it names, the models it includes, whether it
\* sets @page.draft, and whether it is malformed (a fatal parser error).
Text(cats, incl, draft, bad) ==
    [kind |-> "text", cats |-> cats, incl |-> incl, draft |-> draft, bad |-> bad]

Contents ==
    { Text({"x"}, {}, FALSE, FALSE),
      Text({"x", "y"}, {"m"}, FALSE, FALSE),
      Text({"y"}, {}, TRUE, FALSE),
      Text({}, {}, FALSE, TRUE) }

\* No display result yet.
NoResult == [kind |-> "none"]

\* type DisplayError
DisplayError(code, parseError, draft) ==
    [kind |-> "error", status |-> code, parseError |-> parseError, draft |-> draft]

\* type DisplayPage
DisplayPage(name, content, fromCache, generated, cacheGenerated, textGenerated, draft) ==
    [kind |-> "page", name |-> name, content |-> content,
     fromCache |-> fromCache, generated |-> generated,
     cacheGenerated |-> cacheGenerated, textGenerated |-> textGenerated,
     draft |-> draft]

\* type DisplayImage
DisplayImage(fromCache, generated, cacheGenerated) ==
    [kind |-> "image", fromCache |-> fromCache, generated |-> generated,
     cacheGenerated |-> cacheGenerated]

\* FileInfo.ModTime on what os.Lstat returned, its error dropped.
ModTime(fi) == IF fi.kind = "nofile" THEN Panicked ELSE Value(fi.mtime)

\* Page.Exists, Page.CacheExists: os.Stat succeeds.
Exists(pg) == pg.file.kind # "nofile"
CacheExists(pg) == pg.cacheFile.kind # "nofile"

\* Page.Modified, Page.CacheModified
Modified(pg) == ModTime(pg.file)
CacheModified(pg) == ModTime(pg.cacheFile)

\* Wiki.NewPage: the page of a name, with its source and cache files.
NewPage(w, n) == [file |-> w.src[n], cacheFile |-> w.cache[n]]

\* A cache hit requires that the cache file exists, can be read, and is not
\* older than the source nor than any referenced include.
cacheFresh_newerOnly(w, n) ==
    LET pg == NewPage(w, n) IN
    /\ CacheExists(pg)
    /\ w.cache[n].readable
    /\ CacheModified(pg).val > Modified(pg).val
    /\ \A i \in w.src[n].text.incl : CacheModified(pg).val > w.model[i].mtime
cacheFresh(w, n) ==
    LET pg == NewPage(w, n) IN
    /\ CacheExists(pg)
    /\ w.cache[n].readable
    /\ CacheModified(pg).val >= Modified(pg).val
    /\ \A i \in w.src[n].text.incl : CacheModified(pg).val >= w.model[i].mtime

\* The page evaluator: the HTML of a page is determined by its source text and
\* the texts of the models it includes.
evaluate(n, text, models) ==
    [page |-> n, text |-> text, incl |-> [i \in text.incl |-> models[i].ver]]

\* The renders in flight for the (wiki, page name, source mtime) fingerprint;
\* there is one wiki.
inFlight_none(w, n, mtime) == {}
inFlight(w, n, mtime) ==
    {c \in Callers : /\ w.req[c].st = "rendering"
                     /\ w.req[c].page = n
                     /\ w.req[c].mtime = mtime}

\* The modified time written to a category that gains or loses an entry.
catModified_keepsOld(old, now) == old
catModified(old, now) == IF old >= now THEN old ELSE now

\* The category index update protocol, applied to every manifest at once.
updateCategories(cat, n, cats, now) ==
    LET prev == {c \in Cats : cat[c].kind # "nofile" /\ n \in DOMAIN cat[c].pages}
        added == cats \ prev
        removed == prev \ cats
    IN  [c \in Cats |->
            IF c \in added THEN
                IF cat[c].kind = "nofile"
                THEN [kind |-> "cat", preserve |-> FALSE, modified |-> now,
                      pages |-> [q \in {n} |-> now]]
                ELSE [cat[c] EXCEPT
                        !.pages = [q \in DOMAIN cat[c].pages \cup {n} |->
                                      IF q = n THEN now ELSE cat[c].pages[q]],
                        !.modified = catModified(cat[c].modified, now)]
            ELSE IF c \in removed THEN
                LET rest == [q \in DOMAIN cat[c].pages \ {n} |-> cat[c].pages[q]]
                IN  IF DOMAIN rest = {} /\ ~cat[c].preserve
                    THEN NoFile
                    ELSE [cat[c] EXCEPT !.pages = rest,
                                        !.modified = catModified(cat[c].modified, now)]
            ELSE cat[c]]

\* What a request is answered with once the page's content is at hand: a draft
\* is served only when drafts are OK.
draftCheck_off(res, draftOK) == res
draftCheck(res, draftOK) ==
    IF res.draft /\ ~draftOK THEN DisplayError(404, FALSE, TRUE) ELSE res

\* What a caller that waited for a render observes: the render's result,
\* treated as a cache hit.
sharedResult_flagOnly(res) ==
    IF res.kind = "page" THEN [res EXCEPT !.fromCache = TRUE] ELSE res
sharedResult(res) ==
    IF res.kind = "page"
    THEN [res EXCEPT !.fromCache = TRUE, !.generated = FALSE,
                     !.cacheGenerated = FALSE, !.textGenerated = FALSE]
    ELSE res

\* The answer to a call: the name asked for, whether drafts (for an image:
\* generating) were OK, and the display result.  The wiki's res field holds,
\* per caller, the answer the last step returned to it, if any.
Answer(name, ok, out) == [name |-> name, ok |-> ok, out |-> out]
NoAnswer == Answer("", FALSE, NoResult)
Only(c, a) == [d \in Callers |-> IF d = c THEN a ELSE NoAnswer]

\* A request in flight for one of the pages ns is marked: since it was made,
\* the page has changed or another request for the page has been answered.
marked(r, ns) ==
    IF r.st # "idle" /\ r.page \in ns THEN [r EXCEPT !.dirty = TRUE] ELSE r

\* A request for page n is answered at once.  The wiki remembers, per page, the
\* result of the last request served, until the page's source or includes change.
answer(w, c, n, draftOK, out) ==
    [w EXCEPT !.res = Only(c, Answer(n, draftOK, out)),
              !.req = [d \in Callers |-> marked(w.req[d], {n})],
              !.last[n] = out]

\* The render of caller c ends: c is answered with its own result and every
\* caller waiting for the render with the shared one.
deliver(w, c, out) ==
    LET r == w.req[c]
        ws == {d \in Callers : /\ w.req[d].st = "waiting"
                               /\ w.req[d].page = r.page
                               /\ w.req[d].mtime = r.mtime}
        mine == IF out.kind = "page" THEN draftCheck(out, r.draftOK) ELSE out
        theirs(d) == IF out.kind = "page"
                     THEN draftCheck(sharedResult(out), w.req[d].draftOK)
                     ELSE out
    IN  [w EXCEPT
            !.res = [d \in Callers |->
                        IF d = c THEN Answer(r.page, r.draftOK, mine)
                        ELSE IF d \in ws
                        THEN Answer(r.page, w.req[d].draftOK, theirs(d))
                        ELSE NoAnswer],
            !.req = [d \in Callers |->
                        IF d = c \/ d \in ws THEN [st |-> "idle"]
                        ELSE marked(w.req[d], {r.page})],
            !.last[r.page] = IF r.dirty THEN NoResult ELSE mine]

\* A wiki with pages a and b written, a cache file of page a left unreadable by
\* an earlier version, no other cache file, and the preserved category y.
InitWiki ==
    /\ p = InitParser
    /\ heap = <<newBlock(TypMain, <<>>, <<>>, Nil, NoPos)>>
    /\ status = "ok"
    /\ err = NoErr
    /\ ahead = EOF
    /\ lineIdx = 0
    /\ input = <<>>
    /\ page = NoPage
    /\ gallery = NoGallery
    /\ conf = NoConf
    /\ md = NoRenderer
    /\ admin = NoAdmin
    /\ wiki = [kind |-> "wiki",
               now |-> 0, calls |-> 0, edits |-> 0,
               src |-> [n \in WikiPages |->
                          [kind |-> "regular", text |-> Text({"x", "y"}, {"m"}, FALSE, FALSE),
                           mtime |-> 0]],
               model |-> [i \in Models |-> [ver |-> 0, mtime |-> 0]],
               cache |-> [n \in WikiPages |->
                            IF n = "a"
                            THEN [kind |-> "regular", content |-> NoResult, mtime |-> 0,
                                  draft |-> FALSE, cats |-> {}, readable |-> FALSE]
                            ELSE NoFile],
               txt |-> [n \in WikiPages |-> NoFile],
               cat |-> [c \in Cats |->
                          IF c = "y"
                          THEN [kind |-> "cat", preserve |-> TRUE, modified |-> 0,
                                pages |-> [q \in {} |-> 0]]
                          ELSE NoFile],
               image |-> [kind |-> "regular", mtime |-> 0],
               imgcache |-> NoFile,
               req |-> [c \in Callers |-> [st |-> "idle"]],
               res |-> [c \in Callers |-> NoAnswer],
               last |-> [n \in WikiPages |-> NoResult]]

\* The clock ticks.
Tick ==
    /\ wiki.kind = "wiki"
    /\ wiki.now < MaxClock
    /\ wiki' = [wiki EXCEPT !.now = @ + 1, !.res = [c \in Callers |-> NoAnswer]]
    /\ UNCHANGED <<parserVars, page, gallery, conf, md, admin>>

\* An editor writes or deletes the source of a page, or writes a model that
\* pages include.
WriteFile(ns, w) ==
    /\ wiki.kind = "wiki"
    /\ wiki.edits < MaxEdits
    /\ wiki' = [w EXCEPT
                  !.edits = @ + 1,
                  !.res = [c \in Callers |-> NoAnswer],
                  !.req = [c \in Callers |-> marked(wiki.req[c], ns)],
                  !.last = [n \in WikiPages |->
                              IF n \in ns THEN NoResult ELSE wiki.last[n]]]
    /\ UNCHANGED <<parserVars, page, gallery, conf, md, admin>>

WriteSource(n, t) ==
    WriteFile({n}, [wiki EXCEPT !.src[n] =
                      IF t = NoFile THEN NoFile
                      ELSE [kind |-> "regular", text |-> t, mtime |-> wiki.now]])

WriteModel(i) ==
    WriteFile({n \in WikiPages : wiki.src[n].kind # "nofile" /\ i \in wiki.src[n].text.incl},
              [wiki EXCEPT !.model[i] = [ver |-> @.ver + 1, mtime |-> wiki.now]])

\* Wiki.DisplayPageDraft, up to the point where the request is answered from
\* the cache, joins the render in flight for its fingerprint, or starts one.
DisplayPageDraft(c, n, draftOK) ==
    /\ wiki.kind = "wiki"
    /\ wiki.req[c].st = "idle"
    /\ wiki.calls < MaxCalls
    /\ LET w == [wiki EXCEPT !.calls = @ + 1]
           pg == NewPage(w, n)
           r == [st |-> "rendering", page |-> n, mtime |-> Modified(pg).val,
                 draftOK |-> draftOK, dirty |-> FALSE,
                 text |-> w.src[n].text, models |-> w.model]
       IN  wiki' =
             IF ~Exists(pg)
             THEN answer(w, c, n, draftOK, DisplayError(404, FALSE, FALSE))
             ELSE IF cacheFresh(w, n)
             THEN answer(w, c, n, draftOK,
                         draftCheck(DisplayPage(n, w.cache[n].content, TRUE, FALSE, FALSE,
                                                FALSE, w.cache[n].draft), draftOK))
             ELSE IF inFlight(w, n, Modified(pg).val) # {}
             THEN [w EXCEPT !.req[c] = [r EXCEPT !.st = "waiting"],
                            !.res = [d \in Callers |-> NoAnswer]]
             ELSE [w EXCEPT !.req[c] = r, !.res = [d \in Callers |-> NoAnswer]]
    /\ UNCHANGED <<parserVars, page, gallery, conf, md, admin>>

\* What a finished render writes: both cache files and the category index.
commit_skipsText(w, n, r, html) ==
    [w EXCEPT !.cache[n] = [kind |-> "regular", content |-> html, mtime |-> w.now,
                            draft |-> r.text.draft, cats |-> r.text.cats, readable |-> TRUE],
              !.cat = updateCategories(w.cat, n, r.text.cats, w.now)]
commit(w, n, r, html) ==
    [w EXCEPT !.cache[n] = [kind |-> "regular", content |-> html, mtime |-> w.now,
                            draft |-> r.text.draft, cats |-> r.text.cats, readable |-> TRUE],
              !.txt[n] = [kind |-> "regular", mtime |-> w.now],
              !.cat = updateCategories(w.cat, n, r.text.cats, w.now)]

\* What a render that found a parser error writes: nothing.
failed_commits(w, n, r) == commit(w, n, r, NoResult)
failed(w, n, r) == w

\* The render of caller c ends: a malformed source is a parse error and nothing
\* is written; otherwise the cache files and the category index are written
\* and the page is returned as generated.
RenderDone(c) ==
    /\ wiki.kind = "wiki"
    /\ wiki.req[c].st = "rendering"
    /\ LET r == wiki.req[c]
           n == r.page
           html == evaluate(n, r.text, r.models)
       IN  wiki' =
             IF r.text.bad
             THEN deliver(failed(wiki, n, r), c, DisplayError(500, TRUE, FALSE))
             ELSE deliver(commit(wiki, n, r, html), c,
                          DisplayPage(n, html, FALSE, TRUE, TRUE, TRUE, r.text.draft))
    /\ UNCHANGED <<parserVars, page, gallery, conf, md, admin>>

\* The request of caller c is cancelled while it renders: nothing is written.
RenderCancel(c) ==
    /\ wiki.kind = "wiki"
    /\ wiki.req[c].st = "rendering"
    /\ wiki' = deliver(wiki, c, DisplayError(500, FALSE, FALSE))
    /\ UNCHANGED <<parserVars, page, gallery, conf, md, admin>>

\* Wiki.DisplaySizedImageGenerate: the cached image is served when it is not
\* older than the full-size image; otherwise it is generated when that is OK.
DisplaySizedImageGenerate(c, generateOK) ==
    /\ wiki.kind = "wiki"
    /\ wiki.req[c].st = "idle"
    /\ wiki.calls < MaxCalls
    /\ LET w == [wiki EXCEPT !.calls = @ + 1]
           hit == /\ w.imgcache.kind # "nofile"
                  /\ w.imgcache.mtime >= w.image.mtime
       IN  wiki' =
             IF hit
             THEN [w EXCEPT !.res = Only(c, Answer("i", generateOK,
                                              DisplayImage(TRUE, FALSE, FALSE)))]
             ELSE IF generateOK
             THEN [w EXCEPT !.res = Only(c, Answer("i", generateOK,
                                              DisplayImage(FALSE, TRUE, TRUE))),
                            !.imgcache = [kind |-> "regular", mtime |-> w.now]]
             ELSE [w EXCEPT !.res = Only(c, Answer("i", generateOK,
                                              DisplayError(404, FALSE, FALSE)))]
    /\ UNCHANGED <<parserVars, page, gallery, conf, md, admin>>

NextWiki ==
    \/ Tick
    \/ \E t \in Contents \cup {NoFile} : WriteSource("a", t)
    \/ \E i \in Models : WriteModel(i)
    \/ \E c \in Callers, n \in WikiPages, ok \in BOOLEAN : DisplayPageDraft(c, n, ok)
    \/ \E c \in Callers : RenderDone(c)
    \/ \E c \in Callers : RenderCancel(c)
    \/ \E c \in Callers, ok \in BOOLEAN : DisplaySizedImageGenerate(c, ok)

SpecWiki == InitWiki /\ [][NextWiki]_vars

\* ---------------------------------------------------------------------------
\* Claims about the wiki
\* ---------------------------------------------------------------------------

\* The page result the step returns to caller c was preceded, for the same page,
\* by a page result: the request of c was made after that one was answered,
\* and neither the source nor the includes of the page have changed since the
\* request before was made.
SecondDisplay(c) ==
    /\ wiki.kind = "wiki"
    /\ wiki'.res[c].out.kind = "page"
    /\ wiki.last[wiki'.res[c].name].kind = "page"
    /\ wiki.req[c].st # "idle" => ~wiki.req[c].dirty

\* C21: when the source and the includes of a page do not change between two
\* consecutive Display calls that return the page, the second call returns the
\* same HTML as the first, with fromCache true and generated false.
C21_SecondDisplayFromCache ==
    [][\A c \in Callers :
          SecondDisplay(c) =>
              /\ wiki'.res[c].out.content = wiki.last[wiki'.res[c].name].content
              /\ wiki'.res[c].out.fromCache
              /\ ~wiki'.res[c].out.generated]_vars

\* A second call has just been answered from the cache with the HTML of the
\* call before it.
C21_Witness ==
    /\ wiki.kind = "wiki"
    /\ wiki.calls >= 2
    /\ \E c \in Callers :
          /\ wiki.res[c].out.kind = "page"
          /\ wiki.res[c].out.fromCache
          /\ wiki.req[c].st = "idle"
          /\ \A d \in Callers \ {c} : wiki.res[d].out.kind = "none"
          /\ wiki.res[c].out.content = wiki.cache[wiki.res[c].name].content
          /\ wiki.res[c].out.content.text = wiki.src[wiki.res[c].name].text

\* The cache file of page n is on disk, can be read, and is not older than the
\* source of the page nor than any model the source includes.
CacheUsable(n) ==
    /\ wiki.cache[n].kind = "regular"
    /\ wiki.cache[n].readable
    /\ wiki.cache[n].mtime >= wiki.src[n].mtime
    /\ \A i \in wiki.src[n].text.incl : wiki.cache[n].mtime >= wiki.model[i].mtime

\* The step answers caller c, about a page, without a render of its own or of
\* another caller: the request was made and answered in the step.
AnsweredAtOnce(c) ==
    /\ wiki.kind = "wiki"
    /\ wiki.req[c].st = "idle"
    /\ wiki'.res[c].name \in WikiPages

\* The step ends the render of caller c with a page.
Rendered(c) ==
    /\ wiki.kind = "wiki"
    /\ wiki.req[c].st = "rendering"
    /\ wiki'.res[c].out.kind = "page"

\* C22: a request is answered from the cache only when the cache file exists,
\* is readable and is not older than the source and every referenced include;
\* otherwise the page is evaluated, and the generated result is returned with
\* generated and cacheGenerated true only together with both cache files,
\* written in that step.
C22_CacheRule ==
    [][\A c \in Callers :
          /\ AnsweredAtOnce(c) =>
                \/ /\ wiki.src[wiki'.res[c].name].kind = "nofile"
                   /\ wiki'.res[c].out = DisplayError(404, FALSE, FALSE)
                \/ /\ wiki.src[wiki'.res[c].name].kind = "regular"
                   /\ CacheUsable(wiki'.res[c].name)
                   /\ wiki'.res[c].out.kind = "page" => wiki'.res[c].out.fromCache
          /\ Rendered(c) =>
                /\ ~wiki'.res[c].out.fromCache
                /\ wiki'.res[c].out.generated
                /\ wiki'.res[c].out.cacheGenerated
                /\ wiki'.cache[wiki'.res[c].name].kind = "regular"
                /\ wiki'.cache[wiki'.res[c].name].readable
                /\ wiki'.cache[wiki'.res[c].name].content = wiki'.res[c].out.content
                /\ wiki'.cache[wiki'.res[c].name].mtime = wiki.now
                /\ wiki'.txt[wiki'.res[c].name].kind = "regular"
                /\ wiki'.txt[wiki'.res[c].name].mtime = wiki.now]_vars

\* A page whose source was written after its cache file has been generated again.
C22_Witness ==
    /\ wiki.kind = "wiki"
    /\ \E c \in Callers :
          /\ wiki.res[c].out.kind = "page"
          /\ wiki.res[c].out.generated
          /\ wiki.res[c].name = "a"
          /\ wiki.src["a"].kind = "regular"
          /\ wiki.src["a"].mtime = 1
          /\ wiki.cache["a"].mtime = 1
          /\ wiki.txt["a"].kind = "regular"
          /\ wiki.calls >= 2

\* Callers c and d have requests in flight for the same (page, source mtime)
\* fingerprint.
SameFingerprint(w, c, d) ==
    /\ w.req[c].st # "idle"
    /\ w.req[d].st # "idle"
    /\ w.req[c].page = w.req[d].page
    /\ w.req[c].mtime = w.req[d].mtime

\* C23: at no time are two renders in progress for the same fingerprint; a
\* caller that waits always waits for a render in flight for its fingerprint,
\* is answered in the step that ends that render, and a page it receives is
\* the HTML of that render with fromCache true.
C23_OneRenderPerFingerprint ==
    /\ [](wiki.kind = "wiki" =>
            /\ \A c, d \in Callers :
                  (c # d /\ wiki.req[c].st = "rendering" /\ wiki.req[d].st = "rendering")
                      => ~SameFingerprint(wiki, c, d)
            /\ \A d \in Callers :
                  wiki.req[d].st = "waiting" =>
                      \E c \in Callers : wiki.req[c].st = "rendering" /\ SameFingerprint(wiki, c, d))
    /\ [][\A d \in Callers :
            (wiki.kind = "wiki" /\ wiki.req[d].st = "waiting" /\ wiki'.req[d].st # "waiting") =>
                \E c \in Callers :
                    /\ wiki.req[c].st = "rendering"
                    /\ SameFingerprint(wiki, c, d)
                    /\ wiki'.req[c].st = "idle"
                    /\ wiki'.res[d].out.kind # "none"
                    /\ wiki'.res[d].out.kind = "page" =>
                          /\ wiki'.res[d].out.fromCache
                          /\ wiki'.res[d].out.content = wiki'.cache[wiki.req[d].page].content
                          /\ wiki'.res[d].out.content =
                                evaluate(wiki.req[c].page, wiki.req[c].text, wiki.req[c].models)]_vars

\* A caller that waited for the render of another has just received the page
\* from it, while that one received it as generated.
C23_Witness ==
    /\ wiki.kind = "wiki"
    /\ \E c, d \in Callers :
          /\ c # d
          /\ wiki.res[c].out.kind = "page"
          /\ wiki.res[d].out.kind = "page"
          /\ wiki.res[c].out.generated
          /\ wiki.res[d].out.fromCache
          /\ wiki.res[c].name = wiki.res[d].name

\* The step ends the render of caller c without success: with a parse error
\* (lexical or structural) or by cancellation.
RenderFailed(c) ==
    /\ wiki.kind = "wiki"
    /\ wiki.req[c].st = "rendering"
    /\ wiki'.req[c].st = "idle"
    /\ wiki'.res[c].out.kind = "error"
    /\ ~wiki'.res[c].out.draft

\* The step ends the render of caller c with success: the source was well
\* formed and the render was not cancelled.
RenderSucceeded(c) ==
    /\ wiki.kind = "wiki"
    /\ wiki.req[c].st = "rendering"
    /\ wiki'.req[c].st = "idle"
    /\ ~wiki.req[c].text.bad
    /\ wiki'.res[c].out # DisplayError(500, FALSE, FALSE)

\* The categories whose manifest has an entry for page n.
CatsOf(w, n) == {k \in Cats : w.cat[k].kind = "cat" /\ n \in DOMAIN w.cat[k].pages}

\* C24: a step that ends a render in failure, and a step that answers a request
\* for a missing source, leave every category manifest as it was; the category
\* index changes only in the step that ends a successful render, only in the
\* entries of the rendered page, and after that step the page is recorded in
\* exactly the categories of the rendered source.
C24_IndexOnlyAfterSuccess ==
    [][/\ \A c \in Callers :
             (RenderFailed(c) \/ (AnsweredAtOnce(c) /\ wiki'.res[c].out.kind = "error"))
                 => wiki'.cat = wiki.cat
       /\ (wiki.kind = "wiki" /\ wiki'.cat # wiki.cat) =>
             \E c \in Callers :
                 /\ RenderSucceeded(c)
                 /\ CatsOf(wiki', wiki.req[c].page) = wiki.req[c].text.cats
                 /\ \A n \in WikiPages \ {wiki.req[c].page} : CatsOf(wiki', n) = CatsOf(wiki, n)]_vars

\* A render has just failed on a page that the index records, and the index
\* still records it.
C24_Witness ==
    /\ wiki.kind = "wiki"
    /\ \E c \in Callers :
          /\ wiki.res[c].out.kind = "error"
          /\ wiki.res[c].out.status = 500
          /\ wiki.res[c].name = "a"
          /\ CatsOf(wiki, "a") = {"x", "y"}

\* Page n has been rendered: its cache file was written by a render.
RenderedPage(n) == wiki.cache[n].kind = "regular" /\ wiki.cache[n].readable

\* C25: in every state, no entry of a category is newer than the category
\* (asof <= modified); a rendered page has an entry in a category exactly when
\* the category is among the categories of the page as rendered; and a category
\* without entries exists only when it is preserved.
C25_CategoryIndexConsistent ==
    wiki.kind = "wiki" =>
        /\ \A k \in Cats :
              wiki.cat[k].kind = "cat" =>
                  /\ \A n \in DOMAIN wiki.cat[k].pages : wiki.cat[k].pages[n] <= wiki.cat[k].modified
                  /\ DOMAIN wiki.cat[k].pages = {} => wiki.cat[k].preserve
        /\ \A n \in WikiPages :
              RenderedPage(n) => CatsOf(wiki, n) = wiki.cache[n].cats

\* Page a was rendered in categories x and y and, after its source changed,
\* again in category y only: its entry in y is the old one, its entry in x is
\* gone and category x, left without entries and not preserved, is deleted.
C25_Witness ==
    /\ wiki.kind = "wiki"
    /\ RenderedPage("a")
    /\ wiki.cache["a"].cats = {"y"}
    /\ wiki.cache["a"].mtime = 1
    /\ wiki.cat["x"].kind = "nofile"
    /\ wiki.cat["y"].kind = "cat"
    /\ "a" \in DOMAIN wiki.cat["y"].pages
    /\ wiki.cat["y"].pages["a"] = 0

\* C26: no answer carries the content of a draft page unless drafts were OK for
\* the request, and then the page's Draft flag is set; a draft error has status
\* 404; and a request without draftOK that finds the page evaluated as a draft,
\* in the cache or at the end of its render, is answered with exactly that
\* error.
C26_DraftNeedsDraftOK ==
    /\ [](wiki.kind = "wiki" =>
            \A c \in Callers :
                /\ wiki.res[c].out.kind = "page" =>
                      /\ wiki.res[c].out.content.text.draft => wiki.res[c].ok
                      /\ wiki.res[c].out.draft = wiki.res[c].out.content.text.draft
                /\ (wiki.res[c].out.kind = "error" /\ wiki.res[c].out.draft) =>
                      /\ wiki.res[c].out.status = 404
                      /\ ~wiki.res[c].ok)
    /\ [][\A c \in Callers :
            /\ (AnsweredAtOnce(c) /\ ~wiki'.res[c].ok
                   /\ wiki.src[wiki'.res[c].name].kind = "regular"
                   /\ wiki.cache[wiki'.res[c].name].draft)
                  => wiki'.res[c].out = DisplayError(404, FALSE, TRUE)
            /\ (RenderSucceeded(c) /\ wiki.req[c].text.draft /\ ~wiki.req[c].draftOK)
                  => wiki'.res[c].out = DisplayError(404, FALSE, TRUE)]_vars

\* One render of a draft page has answered two callers: the one for whom drafts
\* are OK received the page with its Draft flag set, the other the draft error.
C26_Witness ==
    /\ wiki.kind = "wiki"
    /\ \E c, d \in Callers :
          /\ wiki.res[c].out.kind = "page"
          /\ wiki.res[c].ok
          /\ wiki.res[c].out.draft
          /\ wiki.res[c].out.content.text.draft
          /\ ~wiki.res[d].ok
          /\ wiki.res[d].name = wiki.res[c].name
          /\ wiki.res[d].out = DisplayError(404, FALSE, TRUE)

\* C27: in every page and image display result FromCache and Generated are not
\* both true, CacheGenerated is true only when Generated is, and so is
\* TextGenerated of a page.
C27_ResultFlags ==
    wiki.kind = "wiki" =>
        \A c \in Callers :
            /\ wiki.res[c].out.kind \in {"page", "image"} =>
                  /\ ~(wiki.res[c].out.fromCache /\ wiki.res[c].out.generated)
                  /\ wiki.res[c].out.cacheGenerated => wiki.res[c].out.generated
            /\ wiki.res[c].out.kind = "page" =>
                  (wiki.res[c].out.textGenerated => wiki.res[c].out.generated)

\* One render has answered its caller with a generated page and a waiting
\* caller with the same page from the cache, after an image was generated.
C27_Witness ==
    /\ wiki.kind = "wiki"
    /\ wiki.imgcache.kind = "regular"
    /\ \E c, d \in Callers :
          /\ wiki.res[c].out.kind = "page"
          /\ wiki.res[c].out.generated
          /\ wiki.res[c].out.cacheGenerated
          /\ wiki.res[c].out.textGenerated
          /\ wiki.res[d].out.kind = "page"
          /\ wiki.res[d].out.fromCache
          /\ ~wiki.res[d].out.generated

\* ---------------------------------------------------------------------------
\* A page whose source file may be missing: Parse and the file-based accessors
\* ---------------------------------------------------------------------------

\* How the reading of a page file ends: at its end, at a line the parser
\* rejects, or at an error of the scanner (a read error, a line longer than
\* its buffer); and whether the lines read until then hold the declarations
\* of the file's variables.
FileEnds ==
    {[why |-> "eof", varsRead |-> TRUE]}
    \cup {[why |-> w, varsRead |-> b] : w \in {"parse", "scan"}, b \in BOOLEAN}

\* Page.Parse, the loop over the lines: parseLine sets the variables that
\* the lines read declare.
parseLines(pg) ==
    IF pg.file.kind # "nofile" /\ pg.ends.varsRead
    THEN [pg EXCEPT !.created = pg.content.created, !.redirect = pg.content.redirect]
    ELSE pg

\* Page.Parse, by how far it gets: the error of os.Open is returned before
\* anything is parsed; a line the parser rejects, and after the lines an
\* error of the scanner, ends it before the blocks are evaluated; otherwise
\* the blocks are evaluated unless VarsOnly, and the page's variables are
\* injected into its options, the error of which is returned.
Parse(pg) ==
    IF pg.file.kind = "nofile"
    THEN Value([err |-> "open", evaluated |-> FALSE, injected |-> FALSE])
    ELSE IF pg.ends.why = "parse"
    THEN Value([err |-> "parse", evaluated |-> FALSE, injected |-> FALSE])
    ELSE IF pg.ends.why = "scan"
    THEN Value([err |-> "scan", evaluated |-> FALSE, injected |-> FALSE])
    ELSE IF pg.injectErr
    THEN Value([err |-> "inject", evaluated |-> ~pg.varsOnly, injected |-> FALSE])
    ELSE Value([err |-> "", evaluated |-> ~pg.varsOnly, injected |-> TRUE])

\* Page.Info: the fields are filled in order, Modified first.
Info(pg) ==
    IF Modified(pg).panic THEN Panicked
    ELSE Value([modified |-> Modified(pg).val, created |-> Created(pg),
                redirect |-> Redirect(pg)])

Methods == {"Parse", "Modified", "CacheModified", "IsSymlink", "Info"}

\* The call of a method of the page.
call(pg, m) ==
    CASE m = "Parse" -> Parse(pg)
      [] m = "Modified" -> Modified(pg)
      [] m = "CacheModified" -> CacheModified(pg)
      [] m = "IsSymlink" -> IsSymlink(pg)
      [] m = "Info" -> Info(pg)

\* The page files and cache files explored: missing, or with a time.
SourceFiles ==
    {NoFile}
    \cup {[kind |-> f.kind, target |-> f.target, mtime |-> 1] : f \in PageFiles}
CacheFiles == {NoFile, [kind |-> "regular", mtime |-> 0], [kind |-> "regular", mtime |-> 2]}

\* The values a page file declares for @page.created.
FileCreated == {Absent, StrVal(<<"1">>)}

\* SpecInfo: a page made by NewPage for a path, none of its variables set;
\* the file at the path, when there is one, declares the variables `content`.
\* Each method is called at most once, in any order.
InitInfo ==
    /\ p = InitParser
    /\ heap = <<newBlock(TypMain, <<>>, <<>>, Nil, NoPos)>>
    /\ status = "ok"
    /\ err = NoErr
    /\ ahead = EOF
    /\ lineIdx = 0
    /\ input = <<>>
    /\ gallery = NoGallery
    /\ NoRuntime
    /\ \E f \in SourceFiles, cf \in CacheFiles, c \in FileCreated, r \in RedirectValues,
          e \in FileEnds, ie \in BOOLEAN, vo \in BOOLEAN :
           page = [kind |-> "info", created |-> Absent, redirect |-> Absent,
                   file |-> f, cacheFile |-> cf,
                   content |-> IF f.kind = "nofile" THEN [created |-> Absent, redirect |-> Absent]
                               ELSE [created |-> c, redirect |-> r],
                   ends |-> IF f.kind = "nofile" THEN [why |-> "eof", varsRead |-> TRUE] ELSE e,
                   injectErr |-> (ie /\ f.kind # "nofile" /\ e.why = "eof"),
                   varsOnly |-> vo,
                   ret |-> [m \in {} |-> Panicked]]

PageCall(m) ==
    /\ page.kind = "info"
    /\ m \notin DOMAIN page.ret
    /\ page' = [(IF m = "Parse" THEN parseLines(page) ELSE page)
                   EXCEPT !.ret = [k \in DOMAIN page.ret \cup {m} |->
                                      IF k = m THEN call(page, m) ELSE page.ret[k]]]
    /\ UNCHANGED <<parserVars, gallery, runtimeVars>>

NextInfo == \E m \in Methods : PageCall(m)

SpecInfo == InitInfo /\ [][NextInfo]_vars

\* C28: for a page whose source file is missing, Parse returns the error of
\* opening the file without evaluating blocks or injecting options, and
\* Modified, CacheModified, IsSymlink and Info each return a value: none of
\* them panics when the file they look at does not exist.
C28_MissingSourceIsAnError ==
    (page.kind = "info" /\ page.file.kind = "nofile") =>
        /\ "Parse" \in DOMAIN page.ret =>
              /\ ~page.ret["Parse"].panic
              /\ page.ret["Parse"].val = [err |-> "open", evaluated |-> FALSE, injected |-> FALSE]
        /\ \A m \in DOMAIN page.ret : ~page.ret[m].panic

\* ---------------------------------------------------------------------------
\* The configuration: Get, Require, RequireMany
\* ---------------------------------------------------------------------------

\* bound: the number of names passed to RequireMany
MaxNames == 2

\* A variable name is the sequence of its dot-separated parts: a, m, m.k.
ConfNames == {<<"a">>, <<"m">>, <<"m", "k">>}

\* The values of a variable map: strings, maps, and values that are neither.
ConfStr(s) == [kind |-> "string", str |-> s]
ConfOther == [kind |-> "other"]
ConfMap(m) == [kind |-> "map", map |-> m]

\* Config.getWhere without creation: the map that holds the last part of the
\* name, or nil when a part on the way is missing or is not a map.
getWhere(cv, varName) ==
    IF Len(varName) = 1 THEN [nil |-> FALSE, where |-> cv, lastPart |-> varName[1]]
    ELSE IF varName[1] \in DOMAIN cv /\ cv[varName[1]].kind = "map"
    THEN [nil |-> FALSE, where |-> cv[varName[1]].map, lastPart |-> varName[2]]
    ELSE [nil |-> TRUE]

\* Config.Get
Get(cv, varName) ==
    LET w == getWhere(cv, varName) IN
    IF w.nil THEN ""
    ELSE IF w.lastPart \notin DOMAIN w.where THEN ""
    ELSE IF w.where[w.lastPart].kind = "string" THEN w.where[w.lastPart].str
    ELSE ""

\* isTrueString
isTrueString(str) == ~(str = "" \/ str = "0")

\* Config.Require: the value and the error; the error is told by the name in
\* its message, << >> is nil.
Require(cv, varName) ==
    LET val == Get(cv, varName) IN
    IF ~isTrueString(val) THEN [str |-> "", err |-> varName]
    ELSE [str |-> val, err |-> <<>>]

\* Config.RequireMany
RECURSIVE RequireMany(_, _)
RequireMany(cv, varNames) ==
    IF varNames = <<>> THEN <<>>
    ELSE IF Require(cv, Head(varNames)).err # <<>> THEN Require(cv, Head(varNames)).err
    ELSE RequireMany(cv, Tail(varNames))

\* A variable map with key k bound to value v.
ConfWith(cv, k, v) == [j \in DOMAIN cv \cup {k} |-> IF j = k THEN v ELSE cv[j]]

\* Config.Set: the variable map after the call. getWhere(varName, true)
\* makes the maps that are missing on the way; where a part on the way is
\* there and is no map it is nil, and Set changes nothing.
Set(cv, varName, value) ==
    IF Len(varName) = 1 THEN ConfWith(cv, varName[1], ConfStr(value))
    ELSE IF varName[1] \in DOMAIN cv /\ cv[varName[1]].kind # "map" THEN cv
    ELSE LET where == IF varName[1] \in DOMAIN cv THEN cv[varName[1]].map
                      ELSE [k \in {} |-> ConfOther]
         IN ConfWith(cv, varName[1], ConfMap(ConfWith(where, varName[2], ConfStr(value))))

\* The strings passed to Set.
SetValues == {"", "0", "x"}

\* The leaves and the variable maps explored.
ConfLeaves == {ConfStr(""), ConfStr("0"), ConfStr("x"), ConfOther}
ConfVars ==
    LET inner == {[k \in {} |-> ConfOther]} \cup {[k \in {"k"} |-> v] : v \in ConfLeaves}
        as == {[k \in {} |-> ConfOther]} \cup {[k \in {"a"} |-> v] : v \in ConfLeaves}
        ms == {[k \in {} |-> ConfOther]}
              \cup {[k \in {"m"} |-> v] : v \in {ConfStr("x")} \cup {ConfMap(i) : i \in inner}}
    IN  {[k \in DOMAIN a \cup DOMAIN m |-> IF k \in DOMAIN a THEN a[k] ELSE m[k]] :
            a \in as, m \in ms}

\* SpecConfig: a configuration that was read, the new one with no variable
\* among them; Set, Require and RequireMany are called.
InitConfig ==
    /\ p = InitParser
    /\ heap = <<newBlock(TypMain, <<>>, <<>>, Nil, NoPos)>>
    /\ status = "ok"
    /\ err = NoErr
    /\ ahead = EOF
    /\ lineIdx = 0
    /\ input = <<>>
    /\ page = NoPage
    /\ gallery = NoGallery
    /\ wiki = NoWiki
    /\ md = NoRenderer
    /\ admin = NoAdmin
    /\ \E v \in ConfVars : conf = [kind |-> "conf", vars |-> v, op |-> "", arg |-> <<>>,
                                   ret |-> [str |-> "", err |-> <<>>]]

ConfSet(varName, value) ==
    /\ conf.kind = "conf"
    /\ conf' = [conf EXCEPT !.vars = Set(conf.vars, varName, value),
                            !.op = "Set", !.arg = varName,
                            !.ret = [str |-> "", err |-> <<>>]]
    /\ UNCHANGED <<parserVars, page, gallery, wiki, md, admin>>

ConfRequire(varName) ==
    /\ conf.kind = "conf"
    /\ conf' = [conf EXCEPT !.op = "Require", !.arg = varName,
                            !.ret = Require(conf.vars, varName)]
    /\ UNCHANGED <<parserVars, page, gallery, wiki, md, admin>>

ConfRequireMany(varNames) ==
    /\ conf.kind = "conf"
    /\ conf' = [conf EXCEPT !.op = "RequireMany", !.arg = varNames,
                            !.ret = [str |-> "", err |-> RequireMany(conf.vars, varNames)]]
    /\ UNCHANGED <<parserVars, page, gallery, wiki, md, admin>>

NextConfig ==
    \/ \E n \in ConfNames, v \in SetValues : ConfSet(n, v)
    \/ \E n \in ConfNames : ConfRequire(n)
    \/ \E ns \in UNION {[1..k -> ConfNames] : k \in 0..MaxNames} : ConfRequireMany(ns)

SpecConfig == InitConfig /\ [][NextConfig]_vars

\* The variable is present with a string value.
HasString(cv, varName) ==
    LET w == getWhere(cv, varName) IN
    /\ ~w.nil
    /\ w.lastPart \in DOMAIN w.where
    /\ w.where[w.lastPart].kind = "string"

\* The first of the names that has no string value, or << >>.
RECURSIVE FirstMissing(_, _)
FirstMissing(cv, varNames) ==
    IF varNames = <<>> THEN <<>>
    ELSE IF ~HasString(cv, Head(varNames)) THEN Head(varNames)
    ELSE FirstMissing(cv, Tail(varNames))

\* C29: Require returns the string Get returns and no error whenever the
\* variable is present with a string value, and an error only when the value
\* is missing; RequireMany returns the error of the first missing name in
\* argument order, or nil when none is missing.
C29_RequireLikeGet ==
    conf.kind = "conf" =>
        /\ conf.op = "Require" =>
              /\ HasString(conf.vars, conf.arg) =>
                    /\ conf.ret.str = Get(conf.vars, conf.arg)
                    /\ conf.ret.err = <<>>
              /\ conf.ret.err # <<>> => ~HasString(conf.vars, conf.arg)
        /\ conf.op = "RequireMany" =>
              conf.ret.err = FirstMissing(conf.vars, conf.arg)

\* ---------------------------------------------------------------------------
\* The Markdown renderer: documents and headings
\* ---------------------------------------------------------------------------

\* bound: the number of headings of one document
MaxHeadings == 3

HeadingLevels == 1..6

\* k writes of the string s
Writes(s, k) == [i \in 1..k |-> s]

\* quikiEscFmt: the bytes with a meaning in formatted text get a backslash.
RECURSIVE quikiEscFmt(_)
quikiEscFmt(s) ==
    IF s = <<>> THEN <<>>
    ELSE (IF s[1] \in {"[", "]", "\\"} THEN <<"\\", s[1]>> ELSE <<s[1]>>) \o quikiEscFmt(Tail(s))

\* The string of a sequence of bytes.
RECURSIVE StringOf(_)
StringOf(s) == IF s = <<>> THEN "" ELSE s[1] \o StringOf(Tail(s))

\* The page titles explored: none, a plain one, and titles with the bytes
\* quikiEscFmt escapes.
PageTitles == {<<>>, <<"T">>, <<"[">>, <<"a", "]", "b">>, <<"\\">>}

\* SpecRenderer: a new renderer with its options; documents are walked one
\* after the other, each to a writer of its own (md.w, the strings written).
InitRenderer ==
    /\ p = InitParser
    /\ heap = <<newBlock(TypMain, <<>>, <<>>, Nil, NoPos)>>
    /\ status = "ok"
    /\ err = NoErr
    /\ ahead = EOF
    /\ lineIdx = 0
    /\ input = <<>>
    /\ page = NoPage
    /\ gallery = NoGallery
    /\ wiki = NoWiki
    /\ conf = NoConf
    /\ admin = NoAdmin
    /\ \E partial \in BOOLEAN, toc \in BOOLEAN, title \in PageTitles :
          md = [kind |-> "md", PartialPage |-> partial, TableOfContents |-> toc,
                PageTitle |-> title, headingLevel |-> 0, w |-> <<>>,
                pos |-> "new", headings |-> 0]

\* renderDocument, entering: the head of the page.
RenderDocumentEnter ==
    /\ md.kind = "md"
    /\ md.pos \in {"new", "done"}
    /\ md' = [md EXCEPT
                !.w = IF md.PartialPage THEN <<>>
                      ELSE <<"@page.author:       Markdown;\n",
                             "@page.generator:    quiki/markdown/goldmark;\n",
                             "@page.generated;\n\n">>
                           \o (IF md.TableOfContents THEN <<"toc{}\n\n">> ELSE <<>>),
                !.pos = "doc",
                !.headings = 0]
    /\ UNCHANGED <<parserVars, page, gallery, wiki, conf, admin>>

\* renderHeading, entering, with the filler sections written from the level
\* right after the open one.
renderHeading_fromNext(r, level) ==
    [r EXCEPT
        !.w = r.w
              \o Writes("\n}\n", IF level <= r.headingLevel
                                 THEN r.headingLevel - level + 1 ELSE 0)
              \o Writes("~sec{\n", IF level > r.headingLevel + 1
                                   THEN level - r.headingLevel ELSE 0)
              \o <<"~sec[">>,
        !.headingLevel = level]

\* renderHeading, entering: the sections of this level and below are closed,
\* the levels skipped get a section without a title, the section is begun.
renderHeading(r, level) ==
    [r EXCEPT
        !.w = r.w
              \o Writes("\n}\n", IF level <= r.headingLevel
                                 THEN r.headingLevel - level + 1 ELSE 0)
              \o Writes("~sec{\n", IF level > r.headingLevel + 1
                                   THEN level - (r.headingLevel + 2) + 1 ELSE 0)
              \o <<"~sec[">>,
        !.headingLevel = level]

RenderHeadingEnter(level) ==
    /\ md.kind = "md"
    /\ md.pos = "doc"
    /\ md.headings < MaxHeadings
    /\ md' = [renderHeading(md, level) EXCEPT !.pos = "heading",
                                              !.headings = md.headings + 1]
    /\ UNCHANGED <<parserVars, page, gallery, wiki, conf, admin>>

\* renderHeading, exiting: the title is ended and the body begun.
RenderHeadingExit ==
    /\ md.kind = "md"
    /\ md.pos = "heading"
    /\ md' = [md EXCEPT !.w = md.w \o <<"]", "{\n">>, !.pos = "doc"]
    /\ UNCHANGED <<parserVars, page, gallery, wiki, conf, admin>>

\* renderDocument, exiting: the foot of the page.
RenderDocumentExit ==
    /\ md.kind = "md"
    /\ md.pos = "doc"
    /\ md' = [md EXCEPT
                !.w = md.w \o Writes("\n}", md.headingLevel)
                      \o (IF md.PageTitle # <<>>
                          THEN <<"\n@page.title: " \o StringOf(quikiEscFmt(md.PageTitle))
                                 \o ";\n">>
                          ELSE <<>>),
                !.headingLevel = 0,
                !.pos = "done"]
    /\ UNCHANGED <<parserVars, page, gallery, wiki, conf, admin>>

NextRenderer ==
    \/ RenderDocumentEnter
    \/ \E level \in HeadingLevels : RenderHeadingEnter(level)
    \/ RenderHeadingExit
    \/ RenderDocumentExit

SpecRenderer == InitRenderer /\ [][NextRenderer]_vars

\* The number of the strings of toks among the strings written.
Written(toks) == Cardinality({i \in DOMAIN md.w : md.w[i] \in toks})
SecOpeners == {"~sec{\n", "~sec["}
SecClosers == {"\n}\n", "\n}"}

\* C30: after each heading the sec blocks opened and not yet closed are
\* headingLevel many; at the end of the document as many closing braces as
\* sec openers were written and headingLevel is 0 again.
C30_SectionsBalanced ==
    md.kind = "md" =>
        /\ md.pos \in {"heading", "doc"} =>
              Written(SecOpeners) - Written(SecClosers) = md.headingLevel
        /\ md.pos = "done" =>
              /\ Written(SecOpeners) = Written(SecClosers)
              /\ md.headingLevel = 0

\* A document ended whose headings skipped levels and went back up.
C30_Witness ==
    /\ md.kind = "md"
    /\ md.pos = "done"
    /\ md.headings >= 3
    /\ Written({"~sec{\n"}) >= 2
    /\ Written({"\n}\n"}) >= 2
    /\ Written({"\n}"}) >= 1

\* ---------------------------------------------------------------------------
\* The active catch, the main block, the variable flags and the lexer counters
\* ---------------------------------------------------------------------------

\* The step closes block b.
Closes(b) == b \in 1..Len(heap) /\ ~heap[b].closed /\ heap'[b].closed

\* C35: whenever no variable catch is active and the parser is outside a
\* brace-escape region the active catch is the current block; and once a
\* block, a brace-escaped one in particular, has been closed, the current
\* block and the active catch are both the block that was current before
\* its opener.
C35_CatchIsCurrentBlock ==
    /\ []((status \in {"running", "ok"} /\ p.braceLevel = 0 /\ p.catch # Nil
             /\ heap[p.catch].kind = catchTypeBlock)
            => p.catch = p.block)
    /\ [][\A b \in 1..Len(heap) :
            (Closes(b) /\ status' = "running")
                => (p'.block = heap[b].parent /\ p'.catch = heap[b].parent)]_vars

\* Longest input explored by SpecClose.
MaxClose == 6

\* The input bytes explored by SpecClose: blocks whose type is spelled with
\* the letters of "main", opened and closed, and the variable token "@".
CloseBytes == {"m", "a", "i", "n", "{", "}", "@"}

\* SpecClose: inputs over CloseBytes.
InitClose == InitOver(CloseBytes)

parseLineSkipClose == parseLineSkipOver(CloseBytes, MaxClose)

parseLineClose == parseLineOver(CloseBytes, MaxClose)

ParseNextLineClose == ParseNextLineOver(CloseBytes, MaxClose)

NextClose == parseLineSkipClose \/ parseLineClose \/ ParseNextLineClose \/ ParseReturn

SpecClose == InitClose /\ [][NextClose]_vars

\* C36: the error "Attempted to close main block" is raised only while the
\* current block is the top-level block, a variable-name catch is created only
\* in that block, and an unescaped "}" in any other block, one whose type is
\* spelled "main" included, closes that block.
C36_MainIsTheTopLevelBlock ==
    [][ /\ (status' = "error" /\ err'.msg = "Attempted to close main block")
               => p.block = Main
        /\ (Processing /\ Len(heap') > Len(heap)
                /\ heap'[Len(heap')].kind = catchTypeVariableName)
               => p.block = Main
        /\ (UnescapedBrace("}") /\ p.block # Main /\ p.catch = p.block)
               => /\ status' = "running"
                  /\ heap'[p.block].closed
                  /\ p'.block = heap[p.block].parent ]_vars

\* A variable declaration is being read: the parse runs and the active catch
\* is the catch of a variable name.
InDeclaration ==
    /\ status = "running"
    /\ p.catch # Nil
    /\ heap[p.catch].kind = catchTypeVariableName

\* No declaration is read past its first byte: the token that opens it is
\* handed to the new variable-name catch in the same step, so while the
\* parse goes on no catch is a variable name and neither flag is set, and
\* a flag that is set is the one of the declaration the parse stopped at.
NoDeclarationIsRead ==
    /\ ~InDeclaration
    /\ (p.varNegated \/ p.varNotInterpolated)
          => (status = "error" /\ heap[p.catch].kind = catchTypeVariableName)

\* C40: in every parser state commentLevel and braceLevel are not negative;
\* braceFirst is true only directly after the "{" of a brace-escape opener,
\* with braceLevel 1 and the second "{" about to be read; and the skip flag
\* is never set at the end of a line: the byte to skip is the next byte of
\* the same line.
C40_LexerCounters ==
    /\ p.commentLevel >= 0
    /\ p.braceLevel >= 0
    /\ p.braceFirst =>
          /\ p.braceLevel = 1
          /\ p.last = "{"
          /\ input # <<>>
          /\ input[Len(input)] = "{"
          /\ ahead = "{"
    /\ p.skip => ahead \notin {NL, EOF}

\* A comment opened inside a block has just been left: the skip flag is set
\* and the byte to skip follows on the line.
C40_Witness ==
    /\ status = "running"
    /\ p.skip
    /\ p.commentLevel = 0
    /\ p.braceLevel = 0
    /\ Len(heap) >= 2
    /\ ahead = "/"

\* ---------------------------------------------------------------------------
\* The Markdown renderer: code blocks, and the parser reading what was written
\* ---------------------------------------------------------------------------

\* bound: the length of the code of a code block, in bytes
MaxCode == 4

\* The bytes of the code explored: the braces, a letter and the line end.
CodeBytes == {"{", "}", "a", NL}
Codes == UNION {[1..k -> CodeBytes] : k \in 0..MaxCode}

\* quikiEsc: the bytes with a meaning to the parser get a backslash.
RECURSIVE quikiEsc(_)
quikiEsc(s) ==
    IF s = <<>> THEN <<>>
    ELSE (IF s[1] \in {"{", "}", "\\"} THEN <<"\\", s[1]>> ELSE <<s[1]>>) \o quikiEsc(Tail(s))

\* The brace test with the net count only: as many "}" as "{", at least one.
canBraceEscape_netOnly(code) ==
    /\ CountOf(code, "{", Len(code)) = CountOf(code, "}", Len(code))
    /\ CountOf(code, "{", Len(code)) # 0

\* renderCodeBlockLang: "if there is a closing brace for every opening brace,
\* we can use brace-escape"; the loop over the code stops at the first "}"
\* that closes more than was opened.
canBraceEscape(code) ==
    LET RECURSIVE scan(_, _, _)
        scan(i, braceLevel, braceCount) ==
            IF i > Len(code) THEN [braceLevel |-> braceLevel, braceCount |-> braceCount]
            ELSE IF code[i] = "{" THEN scan(i + 1, braceLevel + 1, braceCount + 1)
            ELSE IF code[i] = "}"
            THEN IF braceLevel - 1 < 0
                 THEN [braceLevel |-> braceLevel - 1, braceCount |-> braceCount]
                 ELSE scan(i + 1, braceLevel - 1, braceCount)
            ELSE scan(i + 1, braceLevel, braceCount)
        end == scan(1, 0, 0)
    IN  end.braceLevel = 0 /\ end.braceCount # 0

\* What the renderer writes before and after the code.
CodeOpener2 == <<"~", "c", "o", "d", "e", "{", "{", NL>>
CodeOpener1 == <<"~", "c", "o", "d", "e", "{", NL>>
CodeCloser2 == <<NL, "}", "}", NL>>
CodeCloser1 == <<NL, "}", NL>>

\* SpecCode: a document of one code block without language is rendered and
\* Parse then reads what was written (md.w, a sequence of bytes).
InitCode ==
    /\ p = InitParser
    /\ heap = <<newBlock(TypMain, <<>>, <<>>, Nil, NoPos)>>
    /\ status = "ok"
    /\ err = NoErr
    /\ ahead = EOF
    /\ lineIdx = 0
    /\ input = <<>>
    /\ page = NoPage
    /\ gallery = NoGallery
    /\ wiki = NoWiki
    /\ conf = NoConf
    /\ admin = NoAdmin
    /\ \E code \in Codes :
          md = [kind |-> "code", code |-> code, braceEscape |-> FALSE, w |-> <<>>,
                pos |-> "new"]

\* renderCodeBlockLang("", ...), entering
RenderCodeEnter ==
    /\ md.kind = "code"
    /\ md.pos = "new"
    /\ md' = [md EXCEPT
                !.braceEscape = canBraceEscape(md.code),
                !.w = IF canBraceEscape(md.code)
                      THEN CodeOpener2 \o md.code
                      ELSE CodeOpener1 \o quikiEsc(md.code),
                !.pos = "code"]
    /\ UNCHANGED <<parserVars, page, gallery, wiki, conf, admin>>

\* renderCodeBlockLang, closing
RenderCodeExit ==
    /\ md.kind = "code"
    /\ md.pos = "code"
    /\ md' = [md EXCEPT
                !.w = md.w \o (IF md.braceEscape THEN CodeCloser2 ELSE CodeCloser1),
                !.braceEscape = FALSE,
                !.pos = "written"]
    /\ UNCHANGED <<parserVars, page, gallery, wiki, conf, admin>>

\* The byte of md.w after the first k bytes, EOF after the last.
ByteAfter(k) == IF k + 1 <= Len(md.w) THEN md.w[k + 1] ELSE EOF

\* Parse(md.w) begins.
ParseWritten ==
    /\ md.kind = "code"
    /\ md.pos = "written"
    /\ md' = [md EXCEPT !.pos = "read"]
    /\ status' = "running"
    /\ ahead' = ByteAfter(0)
    /\ UNCHANGED <<p, heap, err, lineIdx, input, page, gallery, wiki, conf, admin>>

\* parseLine on a byte of md.w: "skip this byte", or update column and bytes
\* and parseByte.
ReadByte ==
    /\ md.kind = "code"
    /\ status = "running"
    /\ ahead \notin {NL, EOF}
    /\ LET nx == ByteAfter(Len(input) + 1)
           m0 == [p |-> [p EXCEPT !.pos.column = lineIdx + 1,
                                  !.this = ahead,
                                  !.next = IF nx \in {NL, EOF} THEN Nul ELSE nx],
                  heap |-> heap, err |-> NoErr]
           m1 == IF p.skip THEN [p |-> [p EXCEPT !.skip = FALSE], heap |-> heap, err |-> NoErr]
                 ELSE parseByte(m0, ahead)
       IN /\ p' = m1.p
          /\ heap' = m1.heap
          /\ err' = m1.err
          /\ status' = IF m1.err = NoErr THEN "running"
                       ELSE IF m1.err.panic THEN "panic" ELSE "error"
          /\ ahead' = nx
    /\ lineIdx' = lineIdx + 1
    /\ input' = Append(input, ahead)
    /\ UNCHANGED <<page, gallery, wiki, conf, md, admin>>

\* Parse: the next line of md.w
ReadLineEnd ==
    /\ md.kind = "code"
    /\ status = "running"
    /\ ahead = NL
    /\ p' = [p EXCEPT !.pos.line = @ + 1]
    /\ lineIdx' = 0
    /\ input' = Append(input, ahead)
    /\ ahead' = ByteAfter(Len(input) + 1)
    /\ UNCHANGED <<heap, status, err, page, gallery, wiki, conf, md, admin>>

NextCode ==
    \/ RenderCodeEnter
    \/ RenderCodeExit
    \/ ParseWritten
    \/ ReadByte
    \/ ReadLineEnd
    \/ ParseReturn

SpecCode == InitCode /\ [][NextCode]_vars

\* The code has a "{", as many "}" as "{", and no prefix with more "}".
BracesBalanced(code) ==
    /\ \E i \in 1..Len(code) : code[i] = "{"
    /\ \A k \in 1..Len(code) : CountOf(code, "{", k) >= CountOf(code, "}", k)
    /\ CountOf(code, "{", Len(code)) = CountOf(code, "}", Len(code))

\* The block was written brace-escaped / with one brace and the code escaped.
WrittenEscaped == md.w = CodeOpener2 \o md.code \o CodeCloser2
WrittenSingle == md.w = CodeOpener1 \o quikiEsc(md.code) \o CodeCloser1

\* C31: a code block is written brace-escaped exactly when its code has a
\* "{" and balanced braces with no prefix closing more than it opens, and
\* otherwise with a single brace and the code escaped; and while the parser
\* reads a brace-escaped block, braceLevel is 1 or more from the opener
\* through all of the code and is 0 only once the first brace of the final
\* "}}" has been read.
C31_BraceEscapedCode ==
    (md.kind = "code" /\ md.pos \in {"written", "read"}) =>
        /\ IF BracesBalanced(md.code) THEN WrittenEscaped ELSE WrittenSingle
        /\ (WrittenEscaped /\ md.pos = "read") =>
              (p.braceLevel >= 1 <=>
                  (Len(input) >= Len(CodeOpener2) - 2
                      /\ Len(input) <= Len(CodeOpener2) + Len(md.code) + 1))

\* The parser has read all of a brace-escaped code with inner braces and is
\* about to read the final "}}", still in brace-escape.
C31_Witness ==
    /\ md.kind = "code"
    /\ md.pos = "read"
    /\ WrittenEscaped
    /\ Len(md.code) >= 4
    /\ status = "running"
    /\ Len(input) = Len(CodeOpener2) + Len(md.code) + 1
    /\ ahead = "}"
    /\ p.braceLevel = 1

\* ---------------------------------------------------------------------------
\* The Markdown renderer: HTML blocks and inline raw HTML
\* ---------------------------------------------------------------------------

\* bound: the lines of an HTML block, the segments of an inline raw HTML node
MaxLines == 2

\* The texts of a line, of a closure line and of a segment.
HtmlTexts == {<<"a">>, <<"{", "]">>}

\* The strings the renderer writes, as bytes.
HtmlOmitted ==
    <<"/", "*", " ", "r", "a", "w", " ", "H", "T", "M", "L", " ",
      "o", "m", "i", "t", "t", "e", "d", " ", "*", "/">>
HtmlOpener == <<"~", "h", "t", "m", "l", "{">>
HtmlCloser == <<"}">>
HtmlInline == <<"[", "h", "t", "m", "l", ":">>

\* No closure line.
NoClosure == <<>>

\* The nodes: an HTML block has its lines and may have a closure line (the
\* line that ends a block begun by a tag such as a comment or a script); an
\* inline raw HTML node has its segments.
HtmlNodes ==
    {[block |-> TRUE, lines |-> l, closure |-> c] :
        l \in UNION {[1..k -> HtmlTexts] : k \in 1..MaxLines},
        c \in {NoClosure} \cup HtmlTexts}
    \cup
    {[block |-> FALSE, lines |-> l, closure |-> NoClosure] :
        l \in UNION {[1..k -> HtmlTexts] : k \in 1..MaxLines}}

\* SpecHtml: a renderer with its Unsafe option walks one HTML node; md.w is
\* the sequence of the strings written.
InitHtml ==
    /\ p = InitParser
    /\ heap = <<newBlock(TypMain, <<>>, <<>>, Nil, NoPos)>>
    /\ status = "ok"
    /\ err = NoErr
    /\ ahead = EOF
    /\ lineIdx = 0
    /\ input = <<>>
    /\ page = NoPage
    /\ gallery = NoGallery
    /\ wiki = NoWiki
    /\ conf = NoConf
    /\ admin = NoAdmin
    /\ \E unsafe \in BOOLEAN, n \in HtmlNodes :
          md = [kind |-> "html", Unsafe |-> unsafe, node |-> n, w |-> <<>>, pos |-> "new"]

\* The writes of the loop over the lines i.. of an unsafe HTML block.
RECURSIVE blockLines(_, _)
blockLines(lines, i) ==
    IF i > Len(lines) THEN <<>>
    ELSE <<HtmlOpener, quikiEsc(lines[i])>> \o blockLines(lines, i + 1)

\* renderHTMLBlock, entering
RenderHTMLBlockEnter ==
    /\ md.kind = "html"
    /\ md.node.block
    /\ md.pos = "new"
    /\ md' = [md EXCEPT
                !.w = IF md.Unsafe THEN blockLines(md.node.lines, 1)
                      ELSE <<HtmlOmitted \o <<NL>>>>,
                !.pos = "entered"]
    /\ UNCHANGED <<parserVars, page, gallery, wiki, conf, admin>>

\* renderHTMLBlock, exiting, with the closure line written whatever Unsafe is.
RenderHTMLBlockExit_closureWritten ==
    /\ md.kind = "html"
    /\ md.node.block
    /\ md.pos = "entered"
    /\ md' = [md EXCEPT
                !.w = IF md.node.closure = NoClosure THEN md.w
                      ELSE md.w \o <<quikiEsc(md.node.closure), HtmlCloser>>,
                !.pos = "done"]
    /\ UNCHANGED <<parserVars, page, gallery, wiki, conf, admin>>

\* renderHTMLBlock, exiting
RenderHTMLBlockExit ==
    /\ md.kind = "html"
    /\ md.node.block
    /\ md.pos = "entered"
    /\ md' = [md EXCEPT
                !.w = IF md.node.closure = NoClosure THEN md.w
                      ELSE IF md.Unsafe
                      THEN md.w \o <<quikiEsc(md.node.closure), HtmlCloser>>
                      ELSE md.w \o <<HtmlOmitted \o <<NL>>>>,
                !.pos = "done"]
    /\ UNCHANGED <<parserVars, page, gallery, wiki, conf, admin>>

\* The writes of the loop over the segments i.. of unsafe inline raw HTML.
RECURSIVE inlineSegments(_, _)
inlineSegments(segs, i) ==
    IF i > Len(segs) THEN <<>>
    ELSE <<HtmlInline, quikiEscFmt(segs[i]), <<"]">>>> \o inlineSegments(segs, i + 1)

\* renderRawHTML, entering; nothing is written when it is called on exit.
RenderRawHTML ==
    /\ md.kind = "html"
    /\ ~md.node.block
    /\ md.pos = "new"
    /\ md' = [md EXCEPT
                !.w = IF md.Unsafe THEN inlineSegments(md.node.lines, 1)
                      ELSE <<HtmlOmitted>>,
                !.pos = "done"]
    /\ UNCHANGED <<parserVars, page, gallery, wiki, conf, admin>>

NextHtml ==
    \/ RenderHTMLBlockEnter
    \/ RenderHTMLBlockExit
    \/ RenderRawHTML

SpecHtml == InitHtml /\ [][NextHtml]_vars

\* C34 as stated: with Unsafe off, what was written for an HTML block or for
\* inline raw HTML is the fixed comment and nothing else, whatever the HTML
\* is: any two such nodes of the same kind give the same output.
C34_RawHtmlOmitted ==
    (md.kind = "html" /\ ~md.Unsafe /\ md.pos = "done") =>
        md.w = IF md.node.block THEN <<HtmlOmitted \o <<NL>>>> ELSE <<HtmlOmitted>>

\* C34: with Unsafe off nothing but the fixed comment is written: once for
\* inline raw HTML, once for an HTML block and once more when the block has a
\* closure line; the output does not depend on the text of the lines, of the
\* segments or of the closure line.
C34_RawHtmlHidden ==
    (md.kind = "html" /\ ~md.Unsafe /\ md.pos = "done") =>
        md.w = IF ~md.node.block THEN <<HtmlOmitted>>
               ELSE IF md.node.closure = NoClosure THEN <<HtmlOmitted \o <<NL>>>>
               ELSE <<HtmlOmitted \o <<NL>>, HtmlOmitted \o <<NL>>>>

\* An HTML block of two lines and a closure line was rendered with Unsafe
\* off: the comment was written twice.
C34_Witness ==
    /\ md.kind = "html"
    /\ ~md.Unsafe
    /\ md.pos = "done"
    /\ md.node.block
    /\ Len(md.node.lines) = 2
    /\ md.node.closure # NoClosure
    /\ Len(md.w) = 2

\* The strings equal to s among the strings written.
HtmlWritten(s) == Cardinality({i \in DOMAIN md.w : md.w[i] = s})

\* C39: with Unsafe on, an HTML block is written as one "~html{" opener, its
\* escaped lines and one closing "}": the openers and the closers written
\* for it are one each.
C39_HtmlBlockBalanced ==
    (md.kind = "html" /\ md.Unsafe /\ md.node.block /\ md.pos = "done") =>
        /\ HtmlWritten(HtmlOpener) = 1
        /\ HtmlWritten(HtmlCloser) = 1
        /\ md.w[1] = HtmlOpener
        /\ md.w[Len(md.w)] = HtmlCloser

\* ---------------------------------------------------------------------------
\* The admin site of a wiki: the page routes, the frame route, and the shared
\* string of JavaScript templates
\* ---------------------------------------------------------------------------

\* The goroutines that serve requests at the same time, one request each.
Clients == {1, 2}

\* "each of these URLs generates wiki.tpl"
PageURLs ==
    {"dashboard", "pages", "categories", "images", "models", "settings", "help", "edit-page"}

\* The keys of frameHandlers.
frameHandlers ==
    {"dashboard", "pages", "categories", "images", "models", "settings", "edit-page"}

\* The frame names requested: those with a handler, one without, and the
\* empty name.
FrameNames == frameHandlers \cup {"help", ""}

\* The URLs under the wiki's root: a page URL or a frame URL.
AdminURLs ==
    {[frame |-> FALSE, name |-> n] : n \in PageURLs}
    \cup {[frame |-> TRUE, name |-> n] : n \in FrameNames}

\* The files of template/js-tmpl, in the order of filepath.Glob, by content.
JsFiles == <<"f1", "f2">>

\* What a read of the shared string gives when it overlaps another
\* goroutine's write: a string header of which one word is old and one new.
Torn == <<"?">>

\* A response: the status, the Location of a redirect, the template executed
\* and the JSTemplates handed to it, and whether a frame handler was called.
NoResponse ==
    [status |-> 0, location |-> "", tpl |-> "", js |-> <<>>, handlerRan |-> FALSE,
     panic |-> FALSE]
Redirected == [NoResponse EXCEPT !.status = 307, !.location = "login"]
NotFound == [NoResponse EXCEPT !.status = 404]
Executed(tpl, js, ran) ==
    [NoResponse EXCEPT !.status = 200, !.tpl = tpl, !.js = js, !.handlerRan = ran]

\* The handler ended in a panic: in the code that makes the parameters of the
\* template (tpl is ""), or with the error tmpl.ExecuteTemplate returned.
PanickedIn(tpl, js, ran) ==
    [NoResponse EXCEPT !.panic = TRUE, !.tpl = tpl, !.js = js, !.handlerRan = ran]

\* What may fail in a handler: nothing, the making of the parameters
\* (json.Marshal, the type assertion of the session's user), the template.
Failures == {"none", "params", "template"}

\* The frame route without the session check.
frameRoute_noCheck(frameName, loggedIn, exist, fails) ==
    IF ~exist THEN NotFound
    ELSE IF frameName \in frameHandlers /\ fails = "params"
    THEN PanickedIn("", <<>>, TRUE)
    ELSE IF fails = "template"
    THEN PanickedIn("frame-" \o frameName \o ".tpl", <<>>, frameName \in frameHandlers)
    ELSE Executed("frame-" \o frameName \o ".tpl", <<>>, frameName \in frameHandlers)

\* The handler of the frame route: the session check, the lookup of the
\* frame template (exist: what tmpl.Lookup finds), the frame handler, which
\* may panic, the template, whose error is a panic.
frameRoute(frameName, loggedIn, exist, fails) ==
    IF ~loggedIn THEN Redirected
    ELSE IF ~exist THEN NotFound
    ELSE IF frameName \in frameHandlers /\ fails = "params"
    THEN PanickedIn("", <<>>, TRUE)
    ELSE IF fails = "template"
    THEN PanickedIn("frame-" \o frameName \o ".tpl", <<>>, frameName \in frameHandlers)
    ELSE Executed("frame-" \o frameName \o ".tpl", <<>>, frameName \in frameHandlers)

\* SpecAdmin: the handlers are set up, the templates are not loaded yet.
InitAdmin ==
    /\ p = InitParser
    /\ heap = <<newBlock(TypMain, <<>>, <<>>, Nil, NoPos)>>
    /\ status = "ok"
    /\ err = NoErr
    /\ ahead = EOF
    /\ lineIdx = 0
    /\ input = <<>>
    /\ page = NoPage
    /\ gallery = NoGallery
    /\ wiki = NoWiki
    /\ conf = NoConf
    /\ md = NoRenderer
    /\ admin = [kind |-> "admin",
                javascriptTemplates |-> <<>>,
                req |-> [c \in Clients |->
                            [pc |-> "idle", url |-> [frame |-> FALSE, name |-> ""],
                             loggedIn |-> FALSE, i |-> 0, data |-> <<>>, old |-> <<>>,
                             resp |-> NoResponse]]]

\* Another goroutine is about to assign the shared string.
Racing(c) == \E d \in Clients \ {c} : admin.req[d].pc = "write"

\* What a read of the shared string by c may give.
SharedRead(c) ==
    {admin.javascriptTemplates} \cup (IF Racing(c) THEN {Torn} ELSE {})

\* A request of client c arrives and its handler runs up to its first read of
\* the shared string: a frame URL is served whole, a page URL goes to
\* handleWiki, which checks the session.
Serve(c, url, loggedIn, exist, fails) ==
    /\ admin.kind = "admin"
    /\ admin.req[c].pc = "idle"
    /\ admin' = [admin EXCEPT !.req[c] =
                    IF url.frame
                    THEN [@ EXCEPT !.pc = "done", !.url = url, !.loggedIn = loggedIn,
                                   !.resp = frameRoute(url.name, loggedIn, exist, fails)]
                    ELSE IF ~loggedIn
                    THEN [@ EXCEPT !.pc = "done", !.url = url, !.loggedIn = loggedIn,
                                   !.resp = Redirected]
                    ELSE [@ EXCEPT !.pc = "check", !.url = url, !.loggedIn = loggedIn]]
    /\ UNCHANGED <<parserVars, page, gallery, wiki, conf, md>>

\* handleWiki: if javascriptTemplates == ""
CheckLoaded(c) ==
    /\ admin.kind = "admin"
    /\ admin.req[c].pc = "check"
    /\ \E v \in SharedRead(c) :
          admin' = [admin EXCEPT !.req[c].pc = IF v = <<>> THEN "file" ELSE "exec",
                                 !.req[c].i = 1]
    /\ UNCHANGED <<parserVars, page, gallery, wiki, conf, md>>

\* handleWiki: the loop over the files; ioutil.ReadFile and the read of the
\* shared string on the right of +=
ReadFile(c) ==
    /\ admin.kind = "admin"
    /\ admin.req[c].pc = "file"
    /\ IF admin.req[c].i > Len(JsFiles)
       THEN admin' = [admin EXCEPT !.req[c].pc = "exec"]
       ELSE \E v \in SharedRead(c) :
               admin' = [admin EXCEPT !.req[c].pc = "write",
                                      !.req[c].data = <<JsFiles[admin.req[c].i]>>,
                                      !.req[c].old = v]
    /\ UNCHANGED <<parserVars, page, gallery, wiki, conf, md>>

\* handleWiki: the assignment of +=
AppendFile(c) ==
    /\ admin.kind = "admin"
    /\ admin.req[c].pc = "write"
    /\ admin' = [admin EXCEPT !.javascriptTemplates = admin.req[c].old \o admin.req[c].data,
                              !.req[c].pc = "file",
                              !.req[c].i = @ + 1,
                              !.req[c].data = <<>>,
                              !.req[c].old = <<>>]
    /\ UNCHANGED <<parserVars, page, gallery, wiki, conf, md>>

\* handleWiki: tmpl.ExecuteTemplate(w, "wiki.tpl", ...): the read of the
\* shared string, getWikiTemplate, which may panic, the template, whose
\* error is a panic.
ExecuteWiki(c) ==
    /\ admin.kind = "admin"
    /\ admin.req[c].pc = "exec"
    /\ \E v \in SharedRead(c), fails \in Failures :
          admin' = [admin EXCEPT !.req[c].pc = "done",
                                 !.req[c].i = 0,
                                 !.req[c].resp =
                                     CASE fails = "params" -> PanickedIn("", v, FALSE)
                                       [] fails = "template" -> PanickedIn("wiki.tpl", v, FALSE)
                                       [] OTHER -> Executed("wiki.tpl", v, FALSE)]
    /\ UNCHANGED <<parserVars, page, gallery, wiki, conf, md>>

NextAdmin ==
    \E c \in Clients :
        \/ \E url \in AdminURLs, loggedIn \in BOOLEAN, exist \in BOOLEAN, fails \in Failures :
              Serve(c, url, loggedIn, exist, fails)
        \/ CheckLoaded(c)
        \/ ReadFile(c)
        \/ AppendFile(c)
        \/ ExecuteWiki(c)

SpecAdmin == InitAdmin /\ [][NextAdmin]_vars

\* C32: a request to a page URL or a frame URL of the wiki whose session is
\* not logged in is answered, in the step that takes it, with a temporary
\* redirect to the login page; no frame handler has run and no template was
\* executed for it, and it never touches the shared templates.
C32_LoginRequired ==
    admin.kind = "admin" =>
        \A c \in Clients :
            (admin.req[c].pc # "idle" /\ ~admin.req[c].loggedIn) =>
                /\ admin.req[c].pc = "done"
                /\ admin.req[c].resp.status = 307
                /\ admin.req[c].resp.location = "login"
                /\ admin.req[c].resp.tpl = ""
                /\ ~admin.req[c].resp.handlerRan
                /\ ~admin.req[c].resp.panic

\* A frame with a handler and a page were requested without a session; both
\* were redirected.
C32_Witness ==
    /\ admin.kind = "admin"
    /\ \E c, d \in Clients :
          /\ admin.req[c].pc = "done"
          /\ admin.req[c].url = [frame |-> TRUE, name |-> "pages"]
          /\ ~admin.req[c].loggedIn
          /\ admin.req[c].resp = Redirected
          /\ admin.req[d].pc = "done"
          /\ admin.req[d].url = [frame |-> FALSE, name |-> "edit-page"]
          /\ ~admin.req[d].loggedIn
          /\ admin.req[d].resp = Redirected

\* C38: when requests to the wiki admin page are served at the same time, the
\* shared javascriptTemplates string ends up as the content of each template
\* file exactly once, and every wiki.tpl executed was handed that complete
\* concatenation.
C38_TemplatesLoadedOnce ==
    admin.kind = "admin" =>
        /\ ((\A c \in Clients : admin.req[c].pc \in {"idle", "done"})
              /\ (\E c \in Clients : admin.req[c].resp.tpl = "wiki.tpl"))
             => admin.javascriptTemplates = JsFiles
        /\ \A c \in Clients :
              admin.req[c].resp.tpl = "wiki.tpl" => admin.req[c].resp.js = JsFiles

====
